---- MODULE Spec2Model ----
(***************************************************************************)
(* Model of the agent loop of agent-core-go: APIAgent.Execute building the *)
(* orchestrator request, AgentLoop.Run driving provider calls, the context *)
(* pipeline (user transform, compact, truncate, validate tool pairs), tool *)
(* dispatch under the active-skill allowlist, and loop-input injection.    *)
(*                                                                         *)
(* Strings that the code inspects character by character (tool names and   *)
(* allowed-tools patterns) are sequences of one-character strings; "LF"    *)
(* stands for the newline character.                                       *)
(***************************************************************************)
EXTENDS Integers, Sequences, FiniteSets, TLC

\* ------------------------------------------------------------------ bounds

\* Cap on loop provider calls in runs without an iteration limit.
MaxCalls == 3
\* Largest number of tool_use blocks in one provider response.
MaxUses == 2
\* Largest number of checkpoints at which the fetchers deliver a loop input.
MaxInputs == 1

\* ------------------------------------------------------- program constants

defaultMaxMessages == 50
TruncateSafetyLimit == 100

\* ------------------------------------------------------------ Go strings

Space == {" ", "LF", "TAB"}
Quotes == {"DQ", "'"}

Lower(c) ==
  CASE c = "B" -> "b"
    [] c = "R" -> "r"
    [] c = "G" -> "g"
    [] c = "W" -> "w"
    [] OTHER -> c

ToLower(s) == [i \in 1..Len(s) |-> Lower(s[i])]

RECURSIVE TrimLeft(_, _)
TrimLeft(s, cutset) ==
  IF s # <<>> /\ Head(s) \in cutset THEN TrimLeft(Tail(s), cutset) ELSE s

RECURSIVE TrimRight(_, _)
TrimRight(s, cutset) ==
  IF s # <<>> /\ s[Len(s)] \in cutset
    THEN TrimRight(SubSeq(s, 1, Len(s) - 1), cutset)
    ELSE s

\* strings.Trim(s, cutset)
Trim(s, cutset) == TrimRight(TrimLeft(s, cutset), cutset)

\* strings.TrimSpace(s)
TrimSpace(s) == Trim(s, Space)

HasPrefix(s, p) == Len(p) <= Len(s) /\ SubSeq(s, 1, Len(p)) = p

HasSuffix(s, p) ==
  Len(p) <= Len(s) /\ SubSeq(s, Len(s) - Len(p) + 1, Len(s)) = p

TrimPrefix(s, p) == IF HasPrefix(s, p) THEN SubSeq(s, Len(p) + 1, Len(s)) ELSE s

TrimSuffix(s, p) == IF HasSuffix(s, p) THEN SubSeq(s, 1, Len(s) - Len(p)) ELSE s

Contains(s, c) == \E i \in 1..Len(s) : s[i] = c

\* strings.Index(s, c) for a one-character c, as a 1-based position; 0 when absent.
Index(s, c) ==
  IF Contains(s, c)
    THEN CHOOSE i \in 1..Len(s) : s[i] = c /\ \A j \in 1..(i - 1) : s[j] # c
    ELSE 0

\* strings.Split(s, sep) for a one-character separator.
RECURSIVE Split(_, _)
Split(s, sep) ==
  IF ~Contains(s, sep)
    THEN <<s>>
    ELSE <<SubSeq(s, 1, Index(s, sep) - 1)>>
           \o Split(SubSeq(s, Index(s, sep) + 1, Len(s)), sep)

\* The non-empty parts of parts, each passed through f's trimming.
RECURSIVE KeepNonEmpty(_)
KeepNonEmpty(parts) ==
  IF parts = <<>> THEN <<>>
  ELSE IF Head(parts) = <<>> THEN KeepNonEmpty(Tail(parts))
  ELSE <<Head(parts)>> \o KeepNonEmpty(Tail(parts))

\* ------------------------------------------------- skills: allowed tools

\* The tool names and patterns used in the model, as character sequences.
Chars(name) ==
  CASE name = "read_file"  -> <<"r","e","a","d","_","f","i","l","e">>
    [] name = "write_file" -> <<"w","r","i","t","e","_","f","i","l","e">>
    [] name = "use_skill"  -> <<"u","s","e","_","s","k","i","l","l">>
    [] name = "git_log"    -> <<"g","i","t","_","l","o","g">>
    [] name = "ghost"      -> <<"g","h","o","s","t">>
    [] OTHER               -> <<>>

parseAllowedToolsValue(raw) ==
  LET r1 == TrimSpace(raw)
      r2 == TrimPrefix(r1, <<"[">>)
      r3 == TrimSuffix(r2, <<"]">>)
      parts == Split(r3, ",")
  IN IF r3 = <<>> THEN <<>>
     ELSE KeepNonEmpty([i \in 1..Len(parts) |-> Trim(TrimSpace(parts[i]), Quotes)])

ParseAllowedToolsEnv(value) ==
  LET v == TrimSpace(value)
      parts == Split(v, "LF")
  IN IF v = <<>> THEN <<>>
     ELSE IF Contains(v, "LF")
       THEN KeepNonEmpty([i \in 1..Len(parts) |-> TrimSpace(parts[i])])
       ELSE parseAllowedToolsValue(v)

\* A normalisation that turns every prefix:* into prefix_*.
normalizeAllowedPattern_Underscore(raw) ==
  LET p0 == TrimSpace(ToLower(raw))
      p1 == IF Index(p0, "(") > 0
              THEN TrimSpace(SubSeq(p0, 1, Index(p0, "(") - 1))
              ELSE p0
      p2 == TrimSpace(Trim(p1, Quotes))
      prefix == TrimSuffix(p2, <<":", "*">>)
  IN IF p0 = <<>> THEN <<>>
     ELSE IF HasSuffix(p2, <<":", "*">>)
       THEN prefix \o <<"_", "*">>
       ELSE p2

normalizeAllowedPattern(raw) ==
  LET p0 == TrimSpace(ToLower(raw))
      p1 == IF Index(p0, "(") > 0
              THEN TrimSpace(SubSeq(p0, 1, Index(p0, "(") - 1))
              ELSE p0
      p2 == TrimSpace(Trim(p1, Quotes))
      prefix == TrimSuffix(p2, <<":", "*">>)
  IN IF p0 = <<>> THEN <<>>
     ELSE IF HasSuffix(p2, <<":", "*">>)
       THEN IF prefix = <<"g","i","t">>
              THEN <<"g","i","t","_","*">>
              ELSE prefix \o <<"*">>
       ELSE p2

wildcardMatch(pattern, value) ==
  IF pattern = value THEN TRUE
  ELSE IF Contains(pattern, "*") /\ HasSuffix(pattern, <<"*">>)
    THEN HasPrefix(value, TrimSuffix(pattern, <<"*">>))
    ELSE FALSE

\* The semantic aliases of IsToolAllowed's switch.
AliasMatch(pattern, tool) ==
  CASE pattern = <<"b","a","s","h">> -> tool = <<"b","a","s","h">>
    [] pattern = <<"g","i","t">> -> HasPrefix(tool, <<"g","i","t","_">>)
    [] pattern \in {<<"r","e","a","d">>, <<"g","r","e","p">>,
                    <<"g","l","o","b">>, <<"l","s">>} ->
         tool \in {Chars("read_file"), <<"l","i","s","t","_","f","i","l","e","s">>}
    [] pattern \in {<<"w","r","i","t","e">>, <<"e","d","i","t">>} ->
         tool = Chars("write_file")
    [] pattern \in {<<"s","k","i","l","l">>, <<"s","k","i","l","l","s">>} ->
         tool \in {Chars("use_skill"),
                   <<"l","i","s","t","_","s","k","i","l","l","s">>,
                   <<"r","e","a","d","_","s","k","i","l","l">>}
    [] OTHER -> FALSE

PatternAllows(raw, tool) ==
  LET pattern == normalizeAllowedPattern(raw)
  IN /\ pattern # <<>>
     /\ \/ pattern = <<"*">>
        \/ wildcardMatch(pattern, tool)
        \/ AliasMatch(pattern, tool)

IsToolAllowed(toolName, allowed) ==
  LET tool == ToLower(TrimSpace(toolName))
  IN IF Len(allowed) = 0 THEN TRUE
     ELSE IF tool = <<>> THEN FALSE
     ELSE \E i \in 1..Len(allowed) : PatternAllows(allowed[i], tool)

\* ------------------------------------------------------------- messages

TextBlock(t) ==
  [type |-> "text", text |-> t, id |-> "", name |-> "",
   tool_use_id |-> "", content |-> "", is_error |-> FALSE]

ToolUseBlock(id, name) ==
  [type |-> "tool_use", text |-> "", id |-> id, name |-> name,
   tool_use_id |-> "", content |-> "", is_error |-> FALSE]

ToolResultBlock(toolUseID, content, isError) ==
  [type |-> "tool_result", text |-> "", id |-> "", name |-> "",
   tool_use_id |-> toolUseID, content |-> content, is_error |-> isError]

Message(role, content) == [role |-> role, content |-> content]

NewTextMessage(role, text) == Message(role, <<TextBlock(text)>>)

\* Go slices are 0-based: At(messages, i) is messages[i].
At(messages, i) == messages[i + 1]

\* The ids of the tool_use blocks of one message, in order (empty ids included).
RECURSIVE UseIdsOfBlocks(_)
UseIdsOfBlocks(blocks) ==
  IF blocks = <<>> THEN <<>>
  ELSE IF Head(blocks).type = "tool_use"
    THEN <<Head(blocks).id>> \o UseIdsOfBlocks(Tail(blocks))
    ELSE UseIdsOfBlocks(Tail(blocks))

\* The tool_use_ids of the tool_result blocks of one message, in order.
RECURSIVE ResultIdsOfBlocks(_)
ResultIdsOfBlocks(blocks) ==
  IF blocks = <<>> THEN <<>>
  ELSE IF Head(blocks).type = "tool_result"
    THEN <<Head(blocks).tool_use_id>> \o ResultIdsOfBlocks(Tail(blocks))
    ELSE ResultIdsOfBlocks(Tail(blocks))

Range(s) == {s[i] : i \in 1..Len(s)}

\* --------------------------------------------------------- validateToolPairs

\* A validateToolPairs that reports no orphan, whatever the list holds.
validateToolPairs_Lenient(messages) == TRUE

\* TRUE when validateToolPairs returns nil: no tool_result has an empty
\* tool_use_id or one that no tool_use block of the list carries.
validateToolPairs(messages) ==
  LET toolUseIDs ==
        (UNION {Range(UseIdsOfBlocks(messages[i].content)) : i \in 1..Len(messages)})
          \ {""}
  IN \A i \in 1..Len(messages) :
       \A r \in Range(ResultIdsOfBlocks(messages[i].content)) :
         r # "" /\ r \in toolUseIDs

\* ---------------------------------------------------------- truncateMessages

collectToolUseIDs(messages, from, includeFirst) ==
  ((IF includeFirst THEN Range(UseIdsOfBlocks(At(messages, 0).content)) ELSE {})
     \cup UNION {Range(UseIdsOfBlocks(At(messages, i).content)) :
                   i \in from..(Len(messages) - 1)})
    \ {""}

\* The tool_use_ids of the tool_result blocks of messages[from:], in scan order.
\* Computed by halving the range, so that long histories stay shallow.
RECURSIVE ResultIdsBetween(_, _, _)
ResultIdsBetween(messages, lo, hi) ==
  IF lo >= hi THEN <<>>
  ELSE IF hi = lo + 1 THEN ResultIdsOfBlocks(At(messages, lo).content)
  ELSE ResultIdsBetween(messages, lo, (lo + hi) \div 2)
         \o ResultIdsBetween(messages, (lo + hi) \div 2, hi)

ResultIdsFrom(messages, from) == ResultIdsBetween(messages, from, Len(messages))

\* The inner search: the largest j in 1..keepFrom-1 whose message holds the
\* tool_use with this id; 0 when there is none.
FindToolUse(messages, keepFrom, id) ==
  LET js == {j \in 1..(keepFrom - 1) :
               id \in Range(UseIdsOfBlocks(At(messages, j).content))}
  IN IF js = {} THEN 0 ELSE CHOOSE j \in js : \A k \in js : k <= j

\* One pass of the fixed-point loop: the new keepFrom (unchanged when no
\* retained tool_result names a tool_use that can still be pulled in).
ScanResults(messages, keepFrom, toolUseIDs, ids) ==
  LET hits == {i \in 1..Len(ids) :
                 /\ ids[i] # ""
                 /\ ids[i] \notin toolUseIDs
                 /\ FindToolUse(messages, keepFrom, ids[i]) > 0}
  IN IF hits = {} THEN keepFrom
     ELSE FindToolUse(messages, keepFrom,
                      ids[CHOOSE i \in hits : \A j \in hits : i <= j])

TruncatePass(messages, keepFrom) ==
  ScanResults(messages, keepFrom, collectToolUseIDs(messages, keepFrom, TRUE),
              ResultIdsFrom(messages, keepFrom))

\* keepFrom after at most n passes.  The loop stops at the first pass that
\* leaves keepFrom unchanged, and a pass depends on keepFrom only, so the
\* passes after that one would leave it unchanged too: the result is that of
\* n passes, computed here by halving n.
RECURSIVE TruncatePasses(_, _, _)
TruncatePasses(messages, keepFrom, n) ==
  IF n <= 0 THEN keepFrom
  ELSE IF n = 1 THEN TruncatePass(messages, keepFrom)
  ELSE LET half == TruncatePasses(messages, keepFrom, n \div 2)
       IN IF half <= 1 THEN half
          ELSE IF TruncatePass(messages, half) = half THEN half
          ELSE TruncatePasses(messages, half, n - n \div 2)

\* The fixed-point loop from pass number iteration on, with its safety limit.
\* A pass that changes keepFrom lowers it and never below 1, so no more than
\* keepFrom - 1 passes change anything.
TruncateFixedPoint(messages, keepFrom, iteration) ==
  TruncatePasses(messages, keepFrom,
                 IF keepFrom - 1 < TruncateSafetyLimit - iteration
                   THEN keepFrom - 1
                   ELSE TruncateSafetyLimit - iteration)

\* A cut that stays at the ideal point and is never extended backwards.
TruncateKeepFrom_Ideal(messages, maxMessages) ==
  LET ideal == Len(messages) - maxMessages + 1
  IN IF ideal < 1 THEN 1 ELSE ideal

TruncateKeepFrom(messages, maxMessages) ==
  LET ideal == Len(messages) - maxMessages + 1
  IN TruncateFixedPoint(messages, IF ideal < 1 THEN 1 ELSE ideal, 0)

truncateMessages(messages, maxMessages) ==
  IF Len(messages) <= maxMessages THEN messages
  ELSE <<At(messages, 0)>>
         \o SubSeq(messages, TruncateKeepFrom(messages, maxMessages) + 1, Len(messages))

\* ------------------------------------------------------------- compactor

\* A nil *CompactConfig / a disabled orchestrator CompactConfig.
NoCompact == [Enabled |-> FALSE, Threshold |-> 0, KeepRecent |-> 0]

ShouldCompact(cc, messages) == cc.Enabled /\ Len(messages) > cc.Threshold

\* Compact on success: a synthetic assistant summary, then the last
\* keep_recent messages verbatim.
Compact(cc, messages) ==
  <<NewTextMessage("assistant", "summary")>>
    \o SubSeq(messages, Len(messages) - cc.KeepRecent + 1, Len(messages))

\* -------------------------------------------------------- context pipeline

\* What a consumer hook (transform_context, convert_to_llm) may do with the
\* list it is handed: keep it, drop the first assistant message, or add a note.
HookBehaviours == {"keep", "drop", "add", "err"}

FirstAssistant(messages) ==
  IF \E i \in 1..Len(messages) : messages[i].role = "assistant"
    THEN CHOOSE i \in 1..Len(messages) :
           /\ messages[i].role = "assistant"
           /\ \A j \in 1..(i - 1) : messages[j].role # "assistant"
    ELSE 0

ApplyHook(behaviour, messages) ==
  CASE behaviour = "drop" /\ FirstAssistant(messages) > 0 ->
         SubSeq(messages, 1, FirstAssistant(messages) - 1)
           \o SubSeq(messages, FirstAssistant(messages) + 1, Len(messages))
    [] behaviour = "add" -> Append(messages, NewTextMessage("user", "note"))
    [] OTHER -> messages

\* The truncate_context plugin.
TruncatePlugin(messages, maxMessages) ==
  IF Len(messages) <= maxMessages THEN messages
  ELSE truncateMessages(messages, maxMessages)

\* A pipeline that truncates before it compacts.
runTransformPlugins_TruncateFirst(req, stateMessages, maxMessages, hook, compactOK) ==
  LET afterUser == IF req.TransformContext
                     THEN ApplyHook(hook, stateMessages)
                     ELSE stateMessages
      failed == req.TransformContext /\ hook = "err"
      afterTruncate == TruncatePlugin(afterUser, maxMessages)
      compacting == /\ ~failed
                    /\ ~req.DisableDefaultContextRules
                    /\ req.CompactConfig.Enabled
                    /\ ShouldCompact(req.CompactConfig, afterTruncate)
      compacted == compacting /\ compactOK
      afterCompact == IF compacted THEN Compact(req.CompactConfig, afterTruncate)
                      ELSE afterTruncate
      stateAfter == IF compacted THEN afterCompact ELSE stateMessages
      valid == validateToolPairs(afterCompact)
  IN [ failed |-> failed,
       context |-> IF req.DisableDefaultContextRules THEN afterUser
                   ELSE IF valid THEN afterCompact
                   ELSE stateAfter,
       stateMessages |-> stateAfter,
       fellBack |-> ~failed /\ ~req.DisableDefaultContextRules /\ ~valid,
       compactCall |-> compacting ]

\* A pipeline whose validation falls back to the list it was handed by the
\* user transform instead of state.Messages.
runTransformPlugins_FallbackToHookOutput(req, stateMessages, maxMessages, hook, compactOK) ==
  LET afterUser == IF req.TransformContext
                     THEN ApplyHook(hook, stateMessages)
                     ELSE stateMessages
      failed == req.TransformContext /\ hook = "err"
      compacting == /\ ~failed
                    /\ ~req.DisableDefaultContextRules
                    /\ req.CompactConfig.Enabled
                    /\ ShouldCompact(req.CompactConfig, afterUser)
      compacted == compacting /\ compactOK
      afterCompact == IF compacted THEN Compact(req.CompactConfig, afterUser)
                      ELSE afterUser
      stateAfter == IF compacted THEN afterCompact ELSE stateMessages
      afterTruncate == TruncatePlugin(afterCompact, maxMessages)
      valid == validateToolPairs(afterTruncate)
  IN [ failed |-> failed,
       context |-> IF req.DisableDefaultContextRules THEN afterUser
                   ELSE IF valid THEN afterTruncate
                   ELSE afterUser,
       stateMessages |-> stateAfter,
       fellBack |-> ~failed /\ ~req.DisableDefaultContextRules /\ ~valid,
       compactCall |-> compacting ]

\* A pipeline whose compaction step hands the compacted list on without
\* writing it to state.Messages.
runTransformPlugins_CompactNotPersisted(req, stateMessages, maxMessages, hook, compactOK) ==
  LET afterUser == IF req.TransformContext
                     THEN ApplyHook(hook, stateMessages)
                     ELSE stateMessages
      failed == req.TransformContext /\ hook = "err"
      compacting == /\ ~failed
                    /\ ~req.DisableDefaultContextRules
                    /\ req.CompactConfig.Enabled
                    /\ ShouldCompact(req.CompactConfig, afterUser)
      compacted == compacting /\ compactOK
      afterCompact == IF compacted THEN Compact(req.CompactConfig, afterUser)
                      ELSE afterUser
      afterTruncate == TruncatePlugin(afterCompact, maxMessages)
      valid == validateToolPairs(afterTruncate)
  IN [ failed |-> failed,
       context |-> IF req.DisableDefaultContextRules THEN afterUser
                   ELSE IF valid THEN afterTruncate
                   ELSE stateMessages,
       stateMessages |-> stateMessages,
       fellBack |-> ~failed /\ ~req.DisableDefaultContextRules /\ ~valid,
       compactCall |-> compacting ]

\* buildTransformPlugins + runTransformPlugins for one iteration.  req is the
\* orchestrator request, stateMessages is state.Messages, hook is what the
\* transform_context hook does this turn and compactOK whether Compact succeeds.
\* Returns the context messages, state.Messages afterwards, whether the hook
\* failed, whether the validation fallback was taken and whether the compactor
\* called the provider.
runTransformPlugins(req, stateMessages, maxMessages, hook, compactOK) ==
  LET afterUser == IF req.TransformContext
                     THEN ApplyHook(hook, stateMessages)
                     ELSE stateMessages
      failed == req.TransformContext /\ hook = "err"
      compacting == /\ ~failed
                    /\ ~req.DisableDefaultContextRules
                    /\ req.CompactConfig.Enabled
                    /\ ShouldCompact(req.CompactConfig, afterUser)
      compacted == compacting /\ compactOK
      afterCompact == IF compacted THEN Compact(req.CompactConfig, afterUser)
                      ELSE afterUser
      stateAfter == IF compacted THEN afterCompact ELSE stateMessages
      afterTruncate == TruncatePlugin(afterCompact, maxMessages)
      valid == validateToolPairs(afterTruncate)
  IN [ failed |-> failed,
       context |-> IF req.DisableDefaultContextRules THEN afterUser
                   ELSE IF valid THEN afterTruncate
                   ELSE stateAfter,
       stateMessages |-> stateAfter,
       fellBack |-> ~failed /\ ~req.DisableDefaultContextRules /\ ~valid,
       compactCall |-> compacting ]

\* A conversion that is handed state.Messages instead of the pipeline output.
convertToLlm_OnState(isSet, conv, contextMessages, stateMessages) ==
  IF isSet THEN ApplyHook(conv, stateMessages) ELSE contextMessages

\* Run: llmMessages, the messages of the provider request: what the
\* convert_to_llm hook returns for the pipeline output, or a copy of the
\* pipeline output when no hook is set (defaultConvertToLlm).
convertToLlm(isSet, conv, contextMessages, stateMessages) ==
  IF isSet THEN ApplyHook(conv, contextMessages) ELSE contextMessages

\* ----------------------------------------------------- iteration settings

\* An Execute in which a positive agent default wins over the request's value.
ExecuteMaxIterations_AgentWins(agentMax, reqMax, reqDisable) ==
  IF reqDisable THEN 0
  ELSE IF agentMax > 0 THEN agentMax
  ELSE reqMax

\* An Execute in which the request's value always replaces the agent default.
ExecuteMaxIterations_RequestAlways(agentMax, reqMax, reqDisable) ==
  IF reqDisable THEN 0 ELSE reqMax

\* APIAgent.Execute: the orchestrator MaxIterations built from the agent's
\* options and the request's options.
ExecuteMaxIterations(agentMax, reqMax, reqDisable) ==
  IF reqDisable THEN 0
  ELSE IF reqMax > 0 THEN reqMax
  ELSE agentMax

\* A hasIterationLimit without the maxIterations > 0 test.
hasIterationLimit_NoZeroCheck(req) == ~req.DisableIterationLimit

\* AgentLoop.Run: hasIterationLimit.
hasIterationLimit(req) == ~req.DisableIterationLimit /\ req.MaxIterations > 0

\* A loop condition that admits one iteration more than the cap.
LoopCondition_OffByOne(req, iters) ==
  (req.DisableIterationLimit \/ req.MaxIterations <= 0) \/ iters <= req.MaxIterations

\* A loop condition that never fails.
LoopCondition_NoCap(req, iters) == TRUE

\* The for-loop condition of AgentLoop.Run.
LoopCondition(req, iters) == ~hasIterationLimit(req) \/ iters < req.MaxIterations

\* AgentLoop.Run: maxMessages with its default.
EffectiveMaxMessages(req) ==
  IF req.MaxMessages <= 0 THEN defaultMaxMessages ELSE req.MaxMessages

\* ------------------------------------------------------ tool_use id repair

\* generateToolUseID: the n-th id minted in a run.  crypto/rand ids are
\* modelled as fresh: distinct from each other and from every provider id.
generateToolUseID(n) ==
  CASE n = 1 -> "tool_1" [] n = 2 -> "tool_2" [] n = 3 -> "tool_3"
    [] n = 4 -> "tool_4" [] n = 5 -> "tool_5" [] n = 6 -> "tool_6"
    [] n = 7 -> "tool_7" [] n = 8 -> "tool_8" [] n = 9 -> "tool_9"
    [] n = 10 -> "tool_10" [] n = 11 -> "tool_11" [] n = 12 -> "tool_12"
    [] OTHER -> "tool_more"

\* An id repair that replaces empty ids only.
NeedsNewID_EmptyOnly(origID, seenIDs) == origID = ""

\* Whether Run replaces the id of a returned tool_use block.
NeedsNewID(origID, seenIDs) == origID = "" \/ origID \in seenIDs

\* The id-repair loop over resp.Content: the repaired blocks, the seen set
\* and the number of ids minted so far.
RECURSIVE RepairIDs(_, _, _)
RepairIDs(blocks, seenIDs, n) ==
  IF blocks = <<>> THEN [content |-> <<>>, seen |-> seenIDs, minted |-> n]
  ELSE IF Head(blocks).type # "tool_use"
    THEN LET rest == RepairIDs(Tail(blocks), seenIDs, n)
         IN [rest EXCEPT !.content = <<Head(blocks)>> \o @]
  ELSE IF NeedsNewID(Head(blocks).id, seenIDs)
    THEN LET newID == generateToolUseID(n + 1)
             rest == RepairIDs(Tail(blocks), seenIDs \cup {newID}, n + 1)
         IN [rest EXCEPT !.content = <<[Head(blocks) EXCEPT !.id = newID]>> \o @]
    ELSE LET rest == RepairIDs(Tail(blocks), seenIDs \cup {Head(blocks).id}, n)
         IN [rest EXCEPT !.content = <<Head(blocks)>> \o @]

\* resp.GetToolUses(): the tool_use blocks of the response, in order.
RECURSIVE GetToolUses(_)
GetToolUses(blocks) ==
  IF blocks = <<>> THEN <<>>
  ELSE IF Head(blocks).type = "tool_use"
    THEN <<Head(blocks)>> \o GetToolUses(Tail(blocks))
    ELSE GetToolUses(Tail(blocks))

\* -------------------------------------------------------- tool dispatch

\* The tools of the registry; any other name is unregistered.
Registered == {"read_file", "write_file", "use_skill", "git_log"}

\* strings.Join(parts, "\n")
RECURSIVE JoinLF(_)
JoinLF(parts) ==
  IF parts = <<>> THEN <<>>
  ELSE IF Len(parts) = 1 THEN Head(parts)
  ELSE Head(parts) \o <<"LF">> \o JoinLF(Tail(parts))

JoinAllowedToolsEnv(allowed) ==
  JoinLF(KeepNonEmpty([i \in 1..Len(allowed) |-> TrimSpace(allowed[i])]))

\* ACTIVE_SKILL_ALLOWED_TOOLS in ToolContext.Env: unset, or set to a value.
EnvUnset == [set |-> FALSE, value |-> <<>>]

\* ToolContext.WithEnv on the allowlist key: writes the value into the
\* context's own env map, where later reads of the same context find it.
WithEnv(value) == [set |-> TRUE, value |-> value]

\* Skill activation (slash invocation, use_skill): set the allowlist when the
\* skill has allowed tools, delete it otherwise.
ActivateSkill(allowedTools) ==
  IF Len(allowedTools) > 0
    THEN WithEnv(JoinAllowedToolsEnv(allowedTools))
    ELSE EnvUnset

\* An allowlist check that lets every tool through.
ensureToolAllowedByActiveSkill_Unchecked(toolEnv, toolName) == TRUE

\* TRUE when ensureToolAllowedByActiveSkill returns nil.
ensureToolAllowedByActiveSkill(toolEnv, toolName) ==
  IF toolName = "use_skill" THEN TRUE
  ELSE IF TrimSpace(toolEnv.value) = <<>> THEN TRUE
  ELSE IsToolAllowed(Chars(toolName), ParseAllowedToolsEnv(TrimSpace(toolEnv.value)))

\* tools.ToolResult for each way a dispatch can end.
ToolResult(content, isError) == [Content |-> content, IsError |-> isError]

\* A dispatch in which a fault of the tool passes for a normal result.
dispatchResult_FaultsPass(allowed, registered, outcome) ==
  IF ~allowed THEN ToolResult("blocked by skill", TRUE)
  ELSE ToolResult("ok", FALSE)

\* executeTools: the result recorded for one tool_use: blocked by the active
\* skill, tool not found, or what the tool's Execute returned (an error
\* return is converted to an error result).
dispatchResult(allowed, registered, outcome) ==
  IF ~allowed THEN ToolResult("blocked by skill", TRUE)
  ELSE IF ~registered THEN ToolResult("tool not found", TRUE)
  ELSE IF outcome = "ok" THEN ToolResult("ok", FALSE)
  ELSE IF outcome = "error_result" THEN ToolResult("tool error", TRUE)
  ELSE ToolResult("execute failed", TRUE)

\* An executeTools that notifies OnToolCall for every tool_use, blocked or not.
toolCallbacks_AlwaysCall(allowed) == <<"tool_call", "tool_result">>

\* The callbacks executeTools fires for one tool_use: a tool the active
\* skill blocks gets its OnToolResult only, any other tool OnToolCall before
\* the registry lookup and OnToolResult after it.
toolCallbacks(allowed) ==
  IF allowed THEN <<"tool_call", "tool_result">> ELSE <<"tool_result">>

\* One toolExecResult.
ToolExecResult(use, result) == [ID |-> use.id, Name |-> use.name, Result |-> result]

\* A tool-result message built in reverse order of the results.
buildToolResultMessage_Reversed(res) ==
  [role |-> "user",
   content |->
     [i \in 1..Len(res) |->
        ToolResultBlock(res[Len(res) + 1 - i].ID, res[Len(res) + 1 - i].Result.Content,
                        res[Len(res) + 1 - i].Result.IsError)]]

buildToolResultMessage(res) ==
  Message("user",
          [i \in 1..Len(res) |->
             ToolResultBlock(res[i].ID, res[i].Result.Content, res[i].Result.IsError)])

\* ----------------------------------------------------------- loop inputs

\* What one fetcher hands back at a poll.
RawPoll(kind, who) ==
  CASE kind = "empty" -> <<Message("user", <<>>)>>
    [] kind = "msg" -> <<Message("", <<TextBlock(who)>>)>>
    [] kind = "mixed" -> <<Message("user", <<>>), Message("", <<TextBlock(who)>>)>>
    [] OTHER -> <<>>

\* A normalisation that keeps messages with empty content.
normalizeLoopInputMessages_KeepEmpty(msgs) ==
  [i \in 1..Len(msgs) |-> [msgs[i] EXCEPT !.role = IF @ = "" THEN "user" ELSE @]]

RECURSIVE normalizeLoopInputMessages(_)
normalizeLoopInputMessages(msgs) ==
  IF msgs = <<>> THEN <<>>
  ELSE IF Len(Head(msgs).content) = 0 THEN normalizeLoopInputMessages(Tail(msgs))
  ELSE <<[Head(msgs) EXCEPT !.role = IF @ = "" THEN "user" ELSE @]>>
         \o normalizeLoopInputMessages(Tail(msgs))

\* A fetchLoopInputs that never hears a fetcher.
FetchOne_Deaf(isSet, kind, who) == <<>>

\* fetchLoopInputs for one fetcher: nil fetcher and a failing fetcher give nil.
FetchOne(isSet, kind, who) ==
  IF ~isSet \/ kind = "err" THEN <<>>
  ELSE normalizeLoopInputMessages(RawPoll(kind, who))

\* applyLoopInputs: steering is appended and its callback fired, then
\* follow-up; a callback fires only for a non-empty list.  Returns
\* state.Messages afterwards and the callbacks fired, in order.
applyLoopInputs_FollowUpFirst(msgs, steering, followUp) ==
  [messages |-> msgs \o followUp \o steering,
   callbacks |-> (IF Len(followUp) > 0 THEN <<"followup_applied">> ELSE <<>>)
                   \o (IF Len(steering) > 0 THEN <<"steering_applied">> ELSE <<>>)]

applyLoopInputs(msgs, steering, followUp) ==
  [messages |-> msgs \o steering \o followUp,
   callbacks |-> (IF Len(steering) > 0 THEN <<"steering_applied">> ELSE <<>>)
                   \o (IF Len(followUp) > 0 THEN <<"followup_applied">> ELSE <<>>)]

\* --------------------------------------------------- Run: control decisions

\* A context check that never sees the cancellation.
ctxErr_Never(done) == ""

\* The select on ctx.Done() at the head of an iteration: ctx.Err(), "" while
\* the context is not done.
ctxErr(done) == IF done THEN "cancelled" ELSE ""

\* A dispatch that treats max_tokens like any other stop reason.
Dispatch_MaxTokensIgnored(stop, hasInputs, hasToolUse) ==
  IF stop = "end_turn" THEN (IF hasInputs THEN "apply" ELSE "success")
  ELSE IF stop = "tool_use" \/ hasToolUse THEN "tools"
  ELSE "continue"

\* A dispatch that executes tools only when the stop reason is tool_use.
Dispatch_ToolUseStopOnly(stop, hasInputs, hasToolUse) ==
  IF stop = "end_turn" THEN (IF hasInputs THEN "apply" ELSE "success")
  ELSE IF stop = "max_tokens" THEN "max_tokens"
  ELSE IF stop = "tool_use" THEN "tools"
  ELSE "continue"

\* A dispatch that takes an unexpected stop reason for the end of the run.
Dispatch_UnknownStopEnds(stop, hasInputs, hasToolUse) ==
  IF stop = "end_turn" THEN (IF hasInputs THEN "apply" ELSE "success")
  ELSE IF stop = "max_tokens" THEN "max_tokens"
  ELSE IF stop = "tool_use" \/ hasToolUse THEN "tools"
  ELSE "success"

\* Run's dispatch on the stop reason of a response: apply loop inputs and
\* continue, return success, fail with max tokens, execute tools, or go on
\* to the next iteration with a warning.
Dispatch(stop, hasInputs, hasToolUse) ==
  IF stop = "end_turn" THEN (IF hasInputs THEN "apply" ELSE "success")
  ELSE IF stop = "max_tokens" THEN "max_tokens"
  ELSE IF stop = "tool_use" \/ hasToolUse THEN "tools"
  ELSE "continue"

\* ------------------------------------------------------- agent and stream

\* Message.GetText: the texts of the text blocks, in order.
RECURSIVE GetText(_)
GetText(blocks) ==
  IF blocks = <<>> THEN <<>>
  ELSE IF Head(blocks).type = "text"
    THEN <<Head(blocks).text>> \o GetText(Tail(blocks))
    ELSE GetText(Tail(blocks))

\* OrchestratorResult.FinalMessage: the last assistant message of the run.
FinalMessage(msgs) ==
  IF \E i \in 1..Len(msgs) : msgs[i].role = "assistant"
    THEN msgs[CHOOSE i \in 1..Len(msgs) :
                /\ msgs[i].role = "assistant"
                /\ \A j \in (i + 1)..Len(msgs) : msgs[j].role # "assistant"]
    ELSE Message("assistant", <<>>)

ExecutionUsage(iters, use) ==
  [TotalIterations |-> iters, TotalInputTokens |-> use.InputTokens,
   TotalOutputTokens |-> use.OutputTokens]

\* A conversion that leaves the usage totals at their zero values.
convertOrchestratorResult_NoUsage(msgs, iters, use, calls) ==
  [Success |-> TRUE,
   Message |-> GetText(FinalMessage(msgs).content),
   ToolCalls |-> [i \in 1..Len(calls) |->
                    [Name |-> calls[i].Name, Output |-> calls[i].Result.Content,
                     IsError |-> calls[i].Result.IsError]],
   Usage |-> ExecutionUsage(0, [InputTokens |-> 0, OutputTokens |-> 0])]

\* convertOrchestratorResult: the AgentResult of a run that returned no error.
convertOrchestratorResult(msgs, iters, use, calls) ==
  [Success |-> TRUE,
   Message |-> GetText(FinalMessage(msgs).content),
   ToolCalls |-> [i \in 1..Len(calls) |->
                    [Name |-> calls[i].Name, Output |-> calls[i].Result.Content,
                     IsError |-> calls[i].Result.IsError]],
   Usage |-> ExecutionUsage(iters, use)]

\* What Execute returns with the error e of Run: on an error the result holds
\* the error text only, otherwise the converted orchestrator result.
ExecuteResult(e, msgs, iters, use, calls) ==
  IF e # ""
    THEN [Success |-> FALSE, Message |-> <<e>>, ToolCalls |-> <<>>,
          Usage |-> ExecutionUsage(0, [InputTokens |-> 0, OutputTokens |-> 0])]
    ELSE convertOrchestratorResult(msgs, iters, use, calls)

\* One AgentStreamEvent, with the iteration of Run during which it was
\* emitted (0 before Run starts).
Event(type, turn) ==
  [type |-> type, turn |-> turn, tool |-> "", delta |-> "", message |-> <<>>,
   usage |-> <<>>]

\* The tool_call and tool_result events of the OnToolCall and OnToolResult
\* wrappers carry the tool name.
ToolEvent(type, name, turn) == [Event(type, turn) EXCEPT !.tool = name]

AgentEndEvent(result, turn) ==
  [type |-> "agent_end", turn |-> turn, tool |-> "", delta |-> "",
   message |-> result.Message, usage |-> <<result.Usage>>]

\* The message_delta event of the OnStreamDelta wrapper: the text of the delta.
DeltaEvent(text, turn) == [Event("message_delta", turn) EXCEPT !.delta = text]

\* The message_end event of the OnMessage wrapper: the text of the message.
MessageEndEvent(msg, turn) ==
  [Event("message_end", turn) EXCEPT !.message = GetText(msg.content)]

\* A delta wrapper that leaves the text of the delta out of its event.
RECURSIVE ResponseEvents_NoDeltaText(_, _, _, _)
ResponseEvents_NoDeltaText(fired, chunks, msg, turn) ==
  IF fired = <<>> THEN <<>>
  ELSE IF Head(fired) = "message_end"
    THEN <<MessageEndEvent(msg, turn)>>
           \o ResponseEvents_NoDeltaText(Tail(fired), chunks, msg, turn)
  ELSE <<Event(Head(fired), turn)>>
         \o ResponseEvents_NoDeltaText(Tail(fired), chunks, msg, turn)

\* The events the wrapped callbacks of ExecuteStream build for the callbacks
\* fired by one provider call: each OnStreamDelta takes the next delta of the
\* provider, OnMessage the assistant message.
RECURSIVE ResponseEvents(_, _, _, _)
ResponseEvents(fired, chunks, msg, turn) ==
  IF fired = <<>> THEN <<>>
  ELSE IF Head(fired) = "message_delta" /\ chunks # <<>>
    THEN <<DeltaEvent(Head(chunks), turn)>>
           \o ResponseEvents(Tail(fired), Tail(chunks), msg, turn)
  ELSE IF Head(fired) = "message_end"
    THEN <<MessageEndEvent(msg, turn)>>
           \o ResponseEvents(Tail(fired), chunks, msg, turn)
  ELSE <<Event(Head(fired), turn)>>
         \o ResponseEvents(Tail(fired), chunks, msg, turn)

\* An ExecuteStream that never refuses to stream.
streamingEnabled_Always(agentOn, requestOn) == TRUE

\* ExecuteStream: streaming is enabled on the agent or in the request.
streamingEnabled(agentOn, requestOn) == agentOn \/ requestOn

\* Callbacks that report the end of the message before its deltas.
onResponse_EndFirst(nd) == <<"message_end">> \o [i \in 1..nd |-> "message_delta"]

\* The callbacks of one successful provider call: OnStreamDelta for each
\* delta the provider streams, then OnMessage for the assistant message.
onResponse(nd) == [i \in 1..nd |-> "message_delta"] \o <<"message_end">>

\* All subsequences of a sequence.
RECURSIVE SubSeqsOf(_)
SubSeqsOf(evts) ==
  IF evts = <<>> THEN {<<>>}
  ELSE LET rest == SubSeqsOf(Tail(evts))
       IN rest \cup {<<Head(evts)>> \o r : r \in rest}

\* ------------------------------------------------------------------ state

VARIABLES
  agent,            \* APIAgent.options after NewAPIAgent
  request,          \* AgentRequest.Options of the Execute call
  world,            \* what provider, tools, hooks and fetchers may return
  entry,            \* the method the caller invokes: Execute or ExecuteStream
  apc,              \* position of the agent: idle, streaming, running, finished
  pc,               \* position of the driver: start, loop, call, tools, done
  orchReq,          \* the OrchestratorRequest built by Execute
  messages,         \* state.Messages
  iterations,       \* state.Iterations
  toolCalls,        \* state.ToolCalls
  lastStop,         \* state.LastResponse.StopReason
  usage,            \* state usage totals
  seenToolUseIDs,   \* Run's seenToolUseIDs
  minted,           \* number of ids minted by generateToolUseID
  sent,             \* agentReq.Messages of the latest provider request
  fellBack,         \* the latest pipeline run took the validation fallback
  fallbacks,        \* pipeline runs of this Run that took the validation fallback
  toolUses,         \* executeTools: uses
  results,          \* executeTools: results
  interrupted,      \* executeTools returned early with loop inputs
  pendingSteering,  \* executeTools: pendingSteering
  pendingFollowUp,  \* executeTools: pendingFollowUp
  env,              \* ACTIVE_SKILL_ALLOWED_TOOLS in the tool context
  ctxDone,          \* ctx.Done() is closed
  err,              \* the error Run returned ("" for nil)
  loopCalls,        \* provider calls made by callProvider
  compactCalls,     \* provider calls made by the compactor
  inputsUsed,       \* checkpoints at which a loop input was delivered
  lastPoll,         \* what the two fetchers returned at the latest poll
  endTurnApplied,   \* loopCalls when loop inputs were last applied after end_turn
  toolsApplied,     \* loopCalls when loop inputs last interrupted a tool batch
  appended,         \* ids of all tool_use blocks appended to state.Messages
  dispatchLog,      \* one record per tool_use dispatched by executeTools
  stops,            \* stop reasons of the responses accepted so far
  callbacks,        \* the orchestrator callbacks fired so far, in order
  eventCh,          \* the events sent on the events channel, in order
  eventClosed,      \* the events channel is closed
  errCh,            \* the errors sent on the errors channel
  errClosed,        \* the errors channel is closed
  agentResult,      \* the AgentResult Execute returned: <<>> or <<result>>
  pipelineLog,      \* the latest pipeline run: its input and what the hooks did
  fnIn,             \* the arguments of a library function called on its own
  fnOut             \* what that call returned: <<>> or <<result>>

confVars == <<agent, request, world, entry>>
stateVars == <<messages, iterations, toolCalls, lastStop, usage>>
toolVars == <<toolUses, results, interrupted, pendingSteering, pendingFollowUp>>
histVars ==
  <<appended, dispatchLog, stops, endTurnApplied, fallbacks, pipelineLog, fnIn, fnOut>>
chanVars == <<eventCh, eventClosed, errCh, errClosed>>

vars == <<agent, request, world, entry, apc, pc, orchReq, messages, iterations,
          toolCalls, lastStop, usage, seenToolUseIDs, minted, sent, fellBack,
          fallbacks, toolUses, results, interrupted, pendingSteering,
          pendingFollowUp, env, ctxDone, err, loopCalls, compactCalls, inputsUsed,
          lastPoll, endTurnApplied, toolsApplied, appended, dispatchLog, stops,
          callbacks, eventCh, eventClosed, errCh, errClosed, agentResult,
          pipelineLog, fnIn, fnOut>>

StopReasons == {"end_turn", "tool_use", "max_tokens", "stop_sequence"}

\* The two entry points of the agent.
Entries == {"Execute", "ExecuteStream"}

\* NewAPIAgent: the defaults it applies to the options it is given.
NewAPIAgent(opts) ==
  [opts EXCEPT !.MaxMessages = IF @ <= 0 THEN 50 ELSE @]

\* The text of the n-th provider response.
ReplyText(n) ==
  CASE n = 1 -> "reply1" [] n = 2 -> "reply2" [] n = 3 -> "reply3"
    [] n = 4 -> "reply4" [] OTHER -> "reply"

\* The tool_use blocks a provider response may carry.
UseSeqs ==
  UNION {[1..k -> [id : world.ids, name : world.names]] : k \in 0..MaxUses}

\* resp.Content of a response: a text block, then its tool_use blocks.
ResponseContent(n, uses) ==
  <<TextBlock(ReplyText(n))>>
    \o [i \in 1..Len(uses) |-> ToolUseBlock(uses[i].id, uses[i].name)]

\* The kinds a fetcher may return at this poll.
PollKinds(isSet) ==
  IF ~isSet THEN {"nil"}
  ELSE IF inputsUsed < MaxInputs THEN world.polls
  ELSE {"none"}

\* A loop that streams from every provider once streaming is enabled.
callProvider_AlwaysStream(enableStreaming, isStreamingProvider) ==
  IF enableStreaming THEN "Stream" ELSE "Call"

\* callProvider: Stream when streaming is enabled and the provider is a
\* StreamingProvider, otherwise a single Call.
callProvider(enableStreaming, isStreamingProvider) ==
  IF enableStreaming /\ isStreamingProvider THEN "Stream" ELSE "Call"

\* The numbers of deltas the provider may hand to onDelta during one call.
\* Only Stream produces deltas.
DeltaCounts ==
  IF callProvider(orchReq.EnableStreaming, world.streaming) = "Stream"
    THEN world.deltas
    ELSE {0}

Deltas(n) == [i \in 1..n |-> "message_delta"]

\* The second half of the text of the n-th provider response.
ReplyTail(n) ==
  CASE n = 1 -> "ly1" [] n = 2 -> "ly2" [] n = 3 -> "ly3"
    [] n = 4 -> "ly4" [] OTHER -> "ly"

\* Stream: the texts of the nd deltas of the n-th response.  The provider
\* streams the text of its response: in one piece or in two.
StreamChunks(n, nd) ==
  IF nd = 0 THEN <<>>
  ELSE IF nd = 1 THEN <<ReplyText(n)>>
  ELSE <<"rep", ReplyTail(n)>>

\* emit over a list of events: outside ExecuteStream nothing is sent; while
\* ctx is not done every event is sent (the buffer of 128 events is
\* never full in a run of the model); once ctx is done the select of each
\* emit may take either case, so any subsequence may be sent.
DeliveriesOf(evts) ==
  IF entry # "ExecuteStream" THEN {<<>>}
  ELSE IF ~ctxDone THEN {evts}
  ELSE SubSeqsOf(evts)

Deliveries(types) ==
  DeliveriesOf([i \in 1..Len(types) |-> Event(types[i], iterations)])

\* State after construction: the agent is built, the request is chosen and
\* the caller is about to invoke Execute or ExecuteStream.
InitState(agents, requests, worlds, entries, inputs) ==
  /\ agent \in {NewAPIAgent(o) : o \in agents}
  /\ request \in requests
  /\ world \in worlds
  /\ entry \in entries
  /\ fnIn \in inputs
  /\ fnOut = <<>>
  /\ apc = "idle"
  /\ pc = "start"
  /\ orchReq = [MaxIterations |-> 0, MaxMessages |-> 0,
                DisableIterationLimit |-> FALSE,
                DisableDefaultContextRules |-> FALSE,
                TransformContext |-> FALSE, ConvertToLlm |-> FALSE,
                CompactConfig |-> NoCompact, EnableStreaming |-> FALSE,
                GetSteeringMessages |-> FALSE, GetFollowUpMessages |-> FALSE]
  /\ messages = <<>>
  /\ iterations = 0
  /\ toolCalls = <<>>
  /\ lastStop = ""
  /\ usage = [InputTokens |-> 0, OutputTokens |-> 0]
  /\ seenToolUseIDs = {}
  /\ minted = 0
  /\ sent = <<>>
  /\ fellBack = FALSE
  /\ fallbacks = 0
  /\ toolUses = <<>>
  /\ results = <<>>
  /\ interrupted = FALSE
  /\ pendingSteering = <<>>
  /\ pendingFollowUp = <<>>
  /\ env = EnvUnset
  /\ ctxDone = FALSE
  /\ err = ""
  /\ loopCalls = 0
  /\ compactCalls = 0
  /\ inputsUsed = 0
  /\ lastPoll = <<"nil", "nil">>
  /\ endTurnApplied = 0
  /\ toolsApplied = 0
  /\ appended = <<>>
  /\ pipelineLog = <<>>
  /\ dispatchLog = <<>>
  /\ stops = <<>>
  /\ callbacks = <<>>
  /\ eventCh = <<>>
  /\ eventClosed = FALSE
  /\ errCh = <<>>
  /\ errClosed = FALSE
  /\ agentResult = <<>>

\* The state before a run of the agent: no library function is called on its
\* own.
InitWith(agents, requests, worlds) ==
  InitState(agents, requests, worlds, Entries, {<<>>})

\* ---------------------------------------------------------------- actions

\* ExecuteStream up to its call of Execute: with streaming enabled neither
\* on the agent nor in the request it closes the events channel, sends the
\* configuration error and closes the errors channel; otherwise the worker
\* emits agent_start and, if that emit gives up on a done ctx, returns and
\* closes both channels.
ExecuteStream ==
  /\ entry = "ExecuteStream"
  /\ apc = "idle"
  /\ IF ~streamingEnabled(agent.EnableStreaming, request.EnableStreaming)
       THEN /\ eventCh' = eventCh
            /\ eventClosed' = TRUE
            /\ errCh' = Append(errCh, "streaming_disabled")
            /\ errClosed' = TRUE
            /\ apc' = "finished"
       ELSE \E sub \in Deliveries(<<"agent_start">>) :
              /\ eventCh' = eventCh \o sub
              /\ errCh' = errCh
              /\ IF sub = <<>>
                   THEN /\ eventClosed' = TRUE
                        /\ errClosed' = TRUE
                        /\ apc' = "finished"
                   ELSE /\ eventClosed' = eventClosed
                        /\ errClosed' = errClosed
                        /\ apc' = "streaming"
  /\ UNCHANGED <<confVars, pc, orchReq, stateVars, seenToolUseIDs, minted, sent,
                 fellBack, toolVars, env, ctxDone, err, loopCalls, compactCalls,
                 inputsUsed, lastPoll, histVars, toolsApplied, callbacks,
                 agentResult>>

\* APIAgent.Execute up to the loop of AgentLoop.Run: build the orchestrator
\* request, create the state with the task as the only message, apply a slash
\* skill invocation if the task is one.  ExecuteStream calls it with
\* streaming switched on in the request.
Execute ==
  /\ pc = "start"
  /\ IF entry = "Execute" THEN apc = "idle" ELSE apc = "streaming"
  /\ apc' = "running"
  /\ orchReq' =
       [MaxIterations |-> ExecuteMaxIterations(agent.MaxIterations,
                             request.MaxIterations, request.DisableIterationLimit),
        MaxMessages |-> agent.MaxMessages,
        DisableIterationLimit |-> request.DisableIterationLimit,
        DisableDefaultContextRules |-> request.DisableDefaultContextRules,
        TransformContext |-> request.TransformContext,
        ConvertToLlm |-> request.ConvertToLlm,
        CompactConfig |-> IF request.CompactConfig # <<>> THEN request.CompactConfig[1]
                          ELSE IF agent.CompactConfig # <<>> THEN agent.CompactConfig[1]
                          ELSE NoCompact,
        EnableStreaming |-> IF entry = "ExecuteStream" THEN TRUE
                            ELSE agent.EnableStreaming \/ request.EnableStreaming,
        GetSteeringMessages |-> request.GetSteeringMessages,
        GetFollowUpMessages |-> request.GetFollowUpMessages]
  /\ messages' = <<NewTextMessage("user", "task")>>
  /\ \E slash \in world.slash :
       env' = IF slash = <<>> THEN EnvUnset ELSE ActivateSkill(slash[1])
  /\ pc' = "loop"
  /\ UNCHANGED <<confVars, iterations, toolCalls, lastStop, usage, seenToolUseIDs,
                 minted, sent, fellBack, toolVars, ctxDone, err, loopCalls,
                 compactCalls, inputsUsed, lastPoll, histVars, toolsApplied,
                 callbacks, chanVars, agentResult>>

\* The caller cancels ctx, at any time before the agent has returned.  Run
\* reads ctx only at the head of an iteration; emit reads it at every event.
Cancel ==
  /\ apc # "finished"
  /\ ~ctxDone
  /\ ctxDone' = TRUE
  /\ UNCHANGED <<confVars, apc, pc, orchReq, stateVars, seenToolUseIDs, minted,
                 sent, fellBack, toolVars, env, err, loopCalls, compactCalls,
                 inputsUsed, lastPoll, histVars, toolsApplied, callbacks,
                 chanVars, agentResult>>

\* Run returns state.ToResult() with the given error.
Return(e) ==
  /\ pc' = "done"
  /\ err' = e

\* Head of an iteration with ctx done: return the partial result.
ReturnCancelled ==
  /\ pc = "loop"
  /\ LoopCondition(orchReq, iterations)
  /\ ctxErr(ctxDone) # ""
  /\ Return(ctxErr(ctxDone))
  /\ UNCHANGED <<confVars, apc, orchReq, stateVars, seenToolUseIDs, minted, sent,
                 fellBack, toolVars, env, ctxDone, loopCalls, compactCalls,
                 inputsUsed, lastPoll, histVars, toolsApplied, callbacks,
                 chanVars, agentResult>>

\* The loop condition fails: the iteration cap is reached.
IterationLimit ==
  /\ pc = "loop"
  /\ ~LoopCondition(orchReq, iterations)
  /\ Return(IF hasIterationLimit(orchReq) THEN "iteration_limit" ELSE "")
  /\ UNCHANGED <<confVars, apc, orchReq, stateVars, seenToolUseIDs, minted, sent,
                 fellBack, toolVars, env, ctxDone, loopCalls, compactCalls,
                 inputsUsed, lastPoll, histVars, toolsApplied, callbacks,
                 chanVars, agentResult>>

\* Head of an iteration: increment the counter, run the context pipeline and
\* convert_to_llm, build the provider request.
BeginIteration ==
  /\ pc = "loop"
  /\ LoopCondition(orchReq, iterations)
  /\ ctxErr(ctxDone) = ""
  /\ iterations < MaxCalls
  /\ \E hook \in (IF orchReq.TransformContext THEN world.hooks ELSE {"keep"}),
        conv \in (IF orchReq.ConvertToLlm THEN world.hooks ELSE {"keep"}),
        compactOK \in (IF orchReq.CompactConfig.Enabled THEN BOOLEAN ELSE {TRUE}) :
       LET p == runTransformPlugins(orchReq, messages,
                                    EffectiveMaxMessages(orchReq), hook, compactOK)
           convFailed == orchReq.ConvertToLlm /\ conv = "err"
           llmMessages == convertToLlm(orchReq.ConvertToLlm, conv, p.context,
                                       p.stateMessages)
       IN /\ iterations' = iterations + 1
          /\ messages' = p.stateMessages
          /\ compactCalls' = compactCalls + (IF p.compactCall THEN 1 ELSE 0)
          /\ fellBack' = p.fellBack
          /\ fallbacks' = fallbacks + (IF p.fellBack THEN 1 ELSE 0)
          /\ pipelineLog' = <<[input |-> messages, hook |-> hook, conv |-> conv,
                                compactOK |-> compactOK, context |-> p.context]>>
          /\ IF p.failed
               THEN /\ Return("transform_error")
                    /\ sent' = sent
             ELSE IF convFailed
               THEN /\ Return("convert_error")
                    /\ sent' = sent
             ELSE /\ pc' = "call"
                  /\ err' = err
                  /\ sent' = llmMessages
  /\ UNCHANGED <<confVars, apc, orchReq, toolCalls, lastStop, usage,
                 seenToolUseIDs, minted, toolVars, env, ctxDone, loopCalls,
                 inputsUsed, lastPoll, appended, dispatchLog, stops,
                 endTurnApplied, toolsApplied, callbacks, chanVars, agentResult, fnIn, fnOut>>

\* callProvider returns an error, after the deltas it may have streamed.
ProviderError ==
  /\ pc = "call"
  /\ loopCalls' = loopCalls + 1
  /\ Return("provider_error")
  /\ \E nd \in DeltaCounts :
       /\ callbacks' = callbacks \o Deltas(nd)
       /\ \E sub \in DeliveriesOf(ResponseEvents(Deltas(nd),
                                   StreamChunks(loopCalls + 1, nd),
                                   Message("assistant", <<>>), iterations)) :
            eventCh' = eventCh \o sub
  /\ UNCHANGED <<confVars, apc, orchReq, stateVars, seenToolUseIDs, minted, sent,
                 fellBack, toolVars, env, ctxDone, compactCalls, inputsUsed,
                 lastPoll, histVars, toolsApplied, eventClosed, errCh, errClosed,
                 agentResult>>

\* callProvider returns a response: update usage, repair tool_use ids, append
\* the assistant message, notify OnMessage and dispatch on the stop reason.
AcceptResponse ==
  /\ pc = "call"
  /\ \E stop \in world.stops, uses \in UseSeqs, nd \in DeltaCounts,
        ks \in PollKinds(orchReq.GetSteeringMessages),
        kf \in PollKinds(orchReq.GetFollowUpMessages) :
       LET fixed == RepairIDs(ResponseContent(loopCalls + 1, uses),
                              seenToolUseIDs, minted)
           assistantMsg == Message("assistant", fixed.content)
           steering == FetchOne(orchReq.GetSteeringMessages, ks, "steer")
           followUp == FetchOne(orchReq.GetFollowUpMessages, kf, "follow")
           polled == stop = "end_turn"
           hasInputs == Len(steering) > 0 \/ Len(followUp) > 0
           branch == Dispatch(stop, polled /\ hasInputs,
                              Len(GetToolUses(fixed.content)) > 0)
           applied == applyLoopInputs(Append(messages, assistantMsg),
                                      steering, followUp)
           fired == onResponse(nd)
                      \o (IF branch = "apply" THEN applied.callbacks ELSE <<>>)
       IN /\ polled \/ (ks \in {"nil", "none"} /\ kf \in {"nil", "none"})
          /\ loopCalls' = loopCalls + 1
          /\ usage' = [InputTokens |-> usage.InputTokens + 1,
                       OutputTokens |-> usage.OutputTokens + 1]
          /\ lastStop' = stop
          /\ stops' = Append(stops, stop)
          /\ seenToolUseIDs' = fixed.seen
          /\ minted' = fixed.minted
          /\ appended' = appended \o UseIdsOfBlocks(fixed.content)
          /\ lastPoll' = IF polled THEN <<ks, kf>> ELSE lastPoll
          /\ callbacks' = callbacks \o fired
          /\ \E sub \in DeliveriesOf(ResponseEvents(fired,
                                      StreamChunks(loopCalls + 1, nd),
                                      assistantMsg, iterations)) :
               eventCh' = eventCh \o sub
          /\ IF branch = "apply"
               THEN /\ messages' = applied.messages
                    /\ inputsUsed' = inputsUsed + 1
                    /\ endTurnApplied' = loopCalls + 1
                    /\ pc' = "loop"
                    /\ err' = err
                    /\ toolUses' = <<>>
             ELSE IF branch = "success"
               THEN /\ messages' = Append(messages, assistantMsg)
                    /\ Return("")
                    /\ UNCHANGED <<inputsUsed, endTurnApplied>>
                    /\ toolUses' = <<>>
             ELSE IF branch = "max_tokens"
               THEN /\ messages' = Append(messages, assistantMsg)
                    /\ Return("max_tokens")
                    /\ UNCHANGED <<inputsUsed, endTurnApplied>>
                    /\ toolUses' = <<>>
             ELSE IF branch = "tools"
               THEN /\ messages' = Append(messages, assistantMsg)
                    /\ pc' = "tools"
                    /\ err' = err
                    /\ toolUses' = GetToolUses(fixed.content)
                    /\ UNCHANGED <<inputsUsed, endTurnApplied>>
             ELSE /\ messages' = Append(messages, assistantMsg)
                  /\ pc' = "loop"
                  /\ err' = err
                  /\ toolUses' = <<>>
                  /\ UNCHANGED <<inputsUsed, endTurnApplied>>
  /\ results' = <<>>
  /\ interrupted' = FALSE
  /\ pendingSteering' = <<>>
  /\ pendingFollowUp' = <<>>
  /\ UNCHANGED <<confVars, apc, orchReq, iterations, toolCalls, sent, fellBack,
                 env, ctxDone, compactCalls, dispatchLog, fallbacks, toolsApplied,
                 eventClosed, errCh, errClosed, agentResult,
                 pipelineLog, fnIn, fnOut>>

\* An allowlist read once per batch: every tool_use of a batch is checked
\* against the value the first tool_use of the batch saw.
EnvActiveSkillAllowedTools_AtBatchStart(toolEnv) ==
  IF results = <<>> THEN toolEnv
  ELSE dispatchLog[Len(dispatchLog) - Len(results) + 1].env

\* toolCtx.Env[skills.EnvActiveSkillAllowedTools] as the allowlist check reads
\* it: the entry of the run's one ToolContext at the moment of the call.
EnvActiveSkillAllowedTools(toolEnv) == toolEnv

\* executeTools, one tool_use: the allowlist check, the registry lookup, the
\* tool itself with its callbacks, then a poll of the loop inputs.
ExecuteTool ==
  /\ pc = "tools"
  /\ ~interrupted
  /\ Len(results) < Len(toolUses)
  /\ LET use == toolUses[Len(results) + 1]
         allowed == ensureToolAllowedByActiveSkill(EnvActiveSkillAllowedTools(env), use.name)
         runs == allowed /\ use.name \in Registered
         fired == toolCallbacks(allowed)
     IN \E outcome \in (IF runs THEN world.outcomes ELSE {"ok"}),
           skill \in (IF runs /\ use.name = "use_skill" THEN world.skills ELSE {<<>>}),
           ks \in PollKinds(orchReq.GetSteeringMessages),
           kf \in PollKinds(orchReq.GetFollowUpMessages) :
          LET result == dispatchResult(allowed, use.name \in Registered, outcome)
              steering == FetchOne(orchReq.GetSteeringMessages, ks, "steer")
              followUp == FetchOne(orchReq.GetFollowUpMessages, kf, "follow")
              hasInputs == Len(steering) > 0 \/ Len(followUp) > 0
          IN /\ results' = Append(results, ToolExecResult(use, result))
             /\ env' = IF runs /\ use.name = "use_skill" /\ outcome = "ok"
                         THEN ActivateSkill(skill)
                         ELSE env
             /\ dispatchLog' = Append(dispatchLog,
                  [name |-> use.name, id |-> use.id, env |-> env,
                   ran |-> runs, is_error |-> result.IsError,
                   fault |-> IF ~allowed THEN "blocked"
                             ELSE IF ~runs THEN "not_found"
                             ELSE outcome,
                   call |-> loopCalls])
             /\ lastPoll' = <<ks, kf>>
             /\ interrupted' = hasInputs
             /\ pendingSteering' = IF hasInputs THEN steering ELSE <<>>
             /\ pendingFollowUp' = IF hasInputs THEN followUp ELSE <<>>
             /\ inputsUsed' = inputsUsed + (IF hasInputs THEN 1 ELSE 0)
             /\ callbacks' = callbacks \o fired
             /\ \E sub \in DeliveriesOf([i \in 1..Len(fired) |->
                                          ToolEvent(fired[i], use.name, iterations)]) :
                  eventCh' = eventCh \o sub
  /\ UNCHANGED <<confVars, apc, pc, orchReq, stateVars, seenToolUseIDs, minted,
                 sent, fellBack, toolUses, ctxDone, err, loopCalls, compactCalls,
                 appended, stops, endTurnApplied, fallbacks, toolsApplied,
                 eventClosed, errCh, errClosed, agentResult,
                 pipelineLog, fnIn, fnOut>>

\* executeTools has returned: record the tool calls, append the tool-result
\* message and, if the batch was interrupted, apply the loop inputs.
FinishTools ==
  /\ pc = "tools"
  /\ interrupted \/ Len(results) = Len(toolUses)
  /\ toolCalls' = toolCalls
       \o [i \in 1..Len(results) |->
             [Name |-> results[i].Name, Result |-> results[i].Result]]
  /\ LET withResults == Append(messages, buildToolResultMessage(results))
         applied == applyLoopInputs(withResults, pendingSteering, pendingFollowUp)
         fired == IF interrupted THEN applied.callbacks ELSE <<>>
     IN /\ messages' = IF interrupted THEN applied.messages ELSE withResults
        /\ callbacks' = callbacks \o fired
        /\ \E sub \in Deliveries(fired) : eventCh' = eventCh \o sub
  /\ toolsApplied' = IF interrupted THEN loopCalls ELSE toolsApplied
  /\ pc' = "loop"
  /\ toolUses' = <<>>
  /\ results' = <<>>
  /\ interrupted' = FALSE
  /\ pendingSteering' = <<>>
  /\ pendingFollowUp' = <<>>
  /\ UNCHANGED <<confVars, apc, orchReq, iterations, lastStop, usage,
                 seenToolUseIDs, minted, sent, fellBack, env, ctxDone, err,
                 loopCalls, compactCalls, inputsUsed, lastPoll, histVars,
                 eventClosed, errCh, errClosed, agentResult>>

\* Run has returned: Execute builds the AgentResult it returns with the
\* error; the ExecuteStream worker sends the error on the errors channel or
\* emits agent_end, and its deferred closes close both channels.
Finish ==
  /\ pc = "done"
  /\ apc = "running"
  /\ apc' = "finished"
  /\ LET result == ExecuteResult(err, messages, iterations, usage, toolCalls)
     IN /\ agentResult' = <<result>>
        /\ IF entry = "ExecuteStream"
             THEN /\ eventClosed' = TRUE
                  /\ errClosed' = TRUE
                  /\ IF err # ""
                       THEN /\ errCh' = Append(errCh, err)
                            /\ eventCh' = eventCh
                       ELSE /\ errCh' = errCh
                            /\ \E sent_end \in (IF ctxDone THEN BOOLEAN ELSE {TRUE}) :
                                 eventCh' = IF sent_end
                                              THEN Append(eventCh, AgentEndEvent(result, iterations))
                                              ELSE eventCh
             ELSE UNCHANGED chanVars
  /\ UNCHANGED <<confVars, pc, orchReq, stateVars, seenToolUseIDs, minted, sent,
                 fellBack, toolVars, env, ctxDone, err, loopCalls, compactCalls,
                 inputsUsed, lastPoll, histVars, toolsApplied, callbacks>>

Next ==
  \/ ExecuteStream
  \/ Execute
  \/ Cancel
  \/ ReturnCancelled
  \/ IterationLimit
  \/ BeginIteration
  \/ ProviderError
  \/ AcceptResponse
  \/ ExecuteTool
  \/ FinishTools
  \/ Finish

\* ----------------------------------------------------------- configurations

\* Skill allowed-tools lists as written in SKILL.md front matter.
AllowBashRead == << <<"B","a","s","h">>, <<"R","e","a","d">> >>
AllowGit == << <<"g","i","t",":","*">> >>
AllowBlank == << <<" ">> >>

PlainAgent(maxIterations) ==
  [MaxIterations |-> maxIterations, MaxMessages |-> 0, CompactConfig |-> <<>>,
   EnableStreaming |-> FALSE]

PlainRequest ==
  [MaxIterations |-> 0, DisableIterationLimit |-> FALSE,
   DisableDefaultContextRules |-> FALSE, TransformContext |-> FALSE,
   ConvertToLlm |-> FALSE, CompactConfig |-> <<>>, EnableStreaming |-> FALSE,
   GetSteeringMessages |-> FALSE, GetFollowUpMessages |-> FALSE,
   OnIteration |-> FALSE, AllowedTools |-> {}, DeniedTools |-> {}]

PlainWorld ==
  [stops |-> StopReasons, ids |-> {"a"}, names |-> {"read_file"}, outcomes |-> {"ok"},
   polls |-> {"none"}, hooks |-> {"keep"}, skills |-> {<<>>}, slash |-> {<<>>},
   streaming |-> FALSE, deltas |-> {0}]

\* Iteration caps: every combination of agent default, per-request
\* max_iterations and per-request disable_iteration_limit.
CapAgents == {PlainAgent(m) : m \in {-1, 0, 1, 2}}
CapRequests ==
  {[PlainRequest EXCEPT !.MaxIterations = m, !.DisableIterationLimit = d] :
     m \in {-1, 0, 1, 2}, d \in BOOLEAN}

Init == InitWith(CapAgents, CapRequests, {PlainWorld})

Spec == Init /\ [][Next]_vars

\* Tool-use ids: a provider that leaves ids empty and repeats them.
IdsWorld == [PlainWorld EXCEPT !.ids = {"", "a"}]
InitIds == InitWith({PlainAgent(0), PlainAgent(2)}, {PlainRequest}, {IdsWorld})

SpecIds == InitIds /\ [][Next]_vars

\* Context pipeline: hooks, compaction, a small max_messages and the switch
\* that disables the default rules.
CtxAgents == {[PlainAgent(2) EXCEPT !.MaxMessages = m] : m \in {0, 2}}
CtxRequests ==
  {[PlainRequest EXCEPT !.DisableDefaultContextRules = d,
                        !.TransformContext = t,
                        !.ConvertToLlm = c,
                        !.CompactConfig = cc] :
     d \in BOOLEAN, t \in BOOLEAN, c \in BOOLEAN,
     cc \in {<<>>, <<[Enabled |-> TRUE, Threshold |-> 2, KeepRecent |-> 1]>>}}
CtxWorld == [PlainWorld EXCEPT !.hooks = HookBehaviours]
InitCtx == InitWith(CtxAgents, CtxRequests, {CtxWorld})

SpecCtx == InitCtx /\ [][Next]_vars

\* Active-skill allowlist: skills with allowed tools, use_skill switching
\* between them, registered and unregistered tools.
SkillWorld ==
  [PlainWorld EXCEPT !.stops = {"end_turn", "tool_use"},
                     !.names = {"read_file", "write_file", "use_skill"},
                     !.skills = {<<>>, AllowBashRead},
                     !.slash = {<<>>, <<AllowBashRead>>, <<AllowBlank>>}]
InitSkill == InitWith({PlainAgent(2)}, {PlainRequest}, {SkillWorld})

SpecSkill == InitSkill /\ [][Next]_vars

\* Loop inputs: steering and follow-up fetchers, set or not.
InputRequests ==
  {[PlainRequest EXCEPT !.GetSteeringMessages = st, !.GetFollowUpMessages = fu] :
     st \in BOOLEAN, fu \in BOOLEAN}
InputWorld == [PlainWorld EXCEPT !.polls = {"none", "err", "empty", "msg"}]
InitInputs ==
  InitWith({PlainAgent(1), PlainAgent(2)}, InputRequests, {InputWorld})

SpecInputs == InitInputs /\ [][Next]_vars

\* Tool faults: an unregistered tool, a tool whose Execute fails and a tool
\* that returns an error result.
FaultWorld ==
  [PlainWorld EXCEPT !.stops = {"end_turn", "tool_use"},
                     !.names = {"read_file", "ghost"},
                     !.outcomes = {"ok", "error_result", "execute_failed"}]
\* Requests that set the on_iteration callback, an allowlist without
\* read_file and a denylist with it.
FaultRequests ==
  {[PlainRequest EXCEPT !.OnIteration = o, !.AllowedTools = a, !.DeniedTools = d] :
     o \in BOOLEAN, a \in {{}, {"write_file"}}, d \in {{}, {"read_file"}}}
InitFaults == InitWith({PlainAgent(2)}, FaultRequests, {FaultWorld})

SpecFaults == InitFaults /\ [][Next]_vars

\* Streaming: streaming enabled on the agent, in the request, in both or in
\* neither; a provider that streams deltas; a steering fetcher.
StreamAgents == {[PlainAgent(2) EXCEPT !.EnableStreaming = e] : e \in BOOLEAN}
StreamRequests ==
  {[PlainRequest EXCEPT !.EnableStreaming = e, !.GetSteeringMessages = st] :
     e \in BOOLEAN, st \in BOOLEAN}
StreamWorld ==
  [PlainWorld EXCEPT !.streaming = TRUE, !.deltas = {1, 2},
                     !.polls = {"none", "msg"}]
\* The same provider without Stream: it implements Call only.
CallOnlyWorld == [StreamWorld EXCEPT !.streaming = FALSE]
InitStream == InitWith(StreamAgents, StreamRequests, {StreamWorld, CallOnlyWorld})

SpecStream == InitStream /\ [][Next]_vars

\* ------------------------------------------------------ skill resolution

\* The most skills a discovered list holds.
MaxSkills == 3

\* precedenceScore: the weight of a scope rank.
ScoreScale == 1000000

\* Byte order of the characters used in skill paths.
CharOrd(c) == CASE c = "a" -> 1 [] c = "b" -> 2 [] OTHER -> 0

\* Go's `<` on strings: bytewise, a proper prefix is smaller.
RECURSIVE LexLess(_, _)
LexLess(a, b) ==
  IF b = <<>> THEN FALSE
  ELSE IF a = <<>> THEN TRUE
  ELSE IF CharOrd(Head(a)) # CharOrd(Head(b)) THEN CharOrd(Head(a)) < CharOrd(Head(b))
  ELSE LexLess(Tail(a), Tail(b))

\* precedenceScore: the scopeRank map; a scope it does not hold ranks 0.
scopeRank(scope) ==
  CASE scope = "project" -> 3
    [] scope = "personal" -> 2
    [] scope = "system" -> 1
    [] OTHER -> 0

\* A score that leaves the scope out.
precedenceScore_OrderOnly(skill) == skill.sourceOrder

precedenceScore(skill) == scopeRank(skill.Scope) * ScoreScale + skill.sourceOrder

\* A comparison in which the larger path wins a tie.
betterSkill_LargerPath(a, b) ==
  IF precedenceScore(a) # precedenceScore(b)
    THEN precedenceScore(a) > precedenceScore(b)
    ELSE LexLess(b.Path, a.Path)

betterSkill(a, b) ==
  IF precedenceScore(a) # precedenceScore(b)
    THEN precedenceScore(a) > precedenceScore(b)
    ELSE LexLess(a.Path, b.Path)

\* The loop of ResolveForInvocation over matches[1:].
RECURSIVE PickBest(_, _)
PickBest(best, rest) ==
  IF rest = <<>> THEN best
  ELSE PickBest(IF betterSkill(Head(rest), best) THEN Head(rest) ELSE best,
                Tail(rest))

RECURSIVE FilterSkills(_, _, _)
FilterSkills(skills, name, fold) ==
  IF skills = <<>> THEN <<>>
  ELSE LET s == Head(skills)
           hit == IF fold THEN ToLower(s.Name) = ToLower(name) ELSE s.Name = name
       IN (IF hit THEN <<s>> ELSE <<>>) \o FilterSkills(Tail(skills), name, fold)

\* ResolveForInvocation: err is "" when a skill is returned.
ResolveForInvocation(skills, rawName) ==
  LET name == TrimSpace(rawName)
      exact == FilterSkills(skills, name, FALSE)
      matches == IF exact # <<>> THEN exact ELSE FilterSkills(skills, name, TRUE)
  IN IF name = <<>> THEN [err |-> "name_required", skill |-> <<>>]
     ELSE IF matches = <<>> THEN [err |-> "skill_not_found", skill |-> <<>>]
     ELSE [err |-> "", skill |-> <<PickBest(Head(matches), Tail(matches))>>]

\* The skills Discover may return: names that differ in case only, every
\* scope, the index of the search directory as source order, a path.
SkillNames == {<<"g">>, <<"G">>}
SkillScopes == {"project", "personal", "system", "unknown"}
SkillPaths == {<<"a">>, <<"a", "b">>, <<"b">>}
DiscoveredSkill ==
  [Name : SkillNames, Scope : SkillScopes, sourceOrder : {0, 1}, Path : SkillPaths]

\* Discover keeps one entry per resolved path.
DiscoveredLists ==
  {l \in UNION {[1..k -> DiscoveredSkill] : k \in 0..MaxSkills} :
     \A i, j \in 1..Len(l) : i # j => l[i].Path # l[j].Path}

\* The names the callers pass: trimmed and not empty.
InvocationNames == {<<"g">>, <<"G">>, <<"w">>}

\* A caller resolves a skill name against the discovered skills.
Resolve ==
  /\ fnOut = <<>>
  /\ fnOut' = <<ResolveForInvocation(fnIn.skills, fnIn.name)>>
  /\ UNCHANGED <<confVars, apc, pc, orchReq, stateVars, seenToolUseIDs, minted,
                 sent, fellBack, toolVars, env, ctxDone, err, loopCalls,
                 compactCalls, inputsUsed, lastPoll, appended, dispatchLog, stops,
                 endTurnApplied, fallbacks, pipelineLog, fnIn, toolsApplied,
                 callbacks, chanVars, agentResult>>

InitResolve ==
  InitState({PlainAgent(1)}, {PlainRequest}, {PlainWorld}, {"Execute"},
            [skills : DiscoveredLists, name : InvocationNames])

SpecResolve == InitResolve /\ [][Resolve]_vars

\* ------------------------------------------------ truncation, on its own

MaxLen == 4
MaxCap == 3

\* The message shapes of a history: a prompt, assistant turns asking for a
\* tool, user turns answering one or both, and a message that answers one
\* tool and asks for the next.
TruncMessages ==
  {NewTextMessage("user", "hi"),
   Message("assistant", <<ToolUseBlock("a", "read_file")>>),
   Message("assistant", <<ToolUseBlock("b", "read_file")>>),
   Message("user", <<ToolResultBlock("a", "ok", FALSE)>>),
   Message("user", <<ToolResultBlock("b", "ok", FALSE)>>),
   Message("user", <<ToolResultBlock("a", "ok", FALSE),
                     ToolResultBlock("b", "ok", FALSE)>>),
   Message("assistant", <<ToolResultBlock("a", "ok", FALSE),
                          ToolUseBlock("b", "read_file")>>)}

ShortLists == UNION {[1..k -> TruncMessages] : k \in 1..MaxLen}

\* A history in which every message after the prompt answers the tool of
\* the message before it and asks for one more, each under its own id.
ChainId(i) == "t" \o ToString(i)

ChainMessage(i) ==
  IF i = 0 THEN NewTextMessage("user", "hi")
  ELSE IF i = 1 THEN Message("assistant", <<ToolUseBlock(ChainId(1), "read_file")>>)
  ELSE Message("assistant", <<ToolResultBlock(ChainId(i - 1), "ok", FALSE),
                              ToolUseBlock(ChainId(i), "read_file")>>)

ChainList(n) == [i \in 1..n |-> ChainMessage(i - 1)]

\* Chains just short enough and just too long for the passes of the loop.
ChainLists == {ChainList(TruncateSafetyLimit + 2), ChainList(TruncateSafetyLimit + 3)}

\* Run hands truncateMessages a positive max_messages.
TruncateInputs == [messages : ShortLists \cup ChainLists, maxMessages : 1..MaxCap]

\* The truncate_context plugin calls truncateMessages on a history.
Truncate ==
  /\ fnOut = <<>>
  /\ fnOut' = <<truncateMessages(fnIn.messages, fnIn.maxMessages)>>
  /\ UNCHANGED <<confVars, apc, pc, orchReq, stateVars, seenToolUseIDs, minted,
                 sent, fellBack, toolVars, env, ctxDone, err, loopCalls,
                 compactCalls, inputsUsed, lastPoll, appended, dispatchLog, stops,
                 endTurnApplied, fallbacks, pipelineLog, fnIn, toolsApplied,
                 callbacks, chanVars, agentResult>>

InitTruncate ==
  InitState({PlainAgent(1)}, {PlainRequest}, {PlainWorld}, {"Execute"}, TruncateInputs)

SpecTruncate == InitTruncate /\ [][Truncate]_vars

\* ------------------------------------------- allowed tools, on their own

MaxPatterns == 2

\* Tool names as a tool_use block may carry them, with their lowercased form.
ToolNameInputs ==
  {[raw |-> <<"b","a","s","h">>, lower |-> <<"b","a","s","h">>],
   [raw |-> <<"B","a","s","h">>, lower |-> <<"b","a","s","h">>],
   [raw |-> <<"b","a","s","h","_","x">>, lower |-> <<"b","a","s","h","_","x">>],
   [raw |-> <<"b","a","s","h","x">>, lower |-> <<"b","a","s","h","x">>],
   [raw |-> <<"g","i","t">>, lower |-> <<"g","i","t">>],
   [raw |-> <<"g","i","t","_","l","o","g">>, lower |-> <<"g","i","t","_","l","o","g">>],
   [raw |-> <<"G","i","t","_","l","o","g">>, lower |-> <<"g","i","t","_","l","o","g">>],
   [raw |-> <<"g","i","t","l","o","g">>, lower |-> <<"g","i","t","l","o","g">>],
   [raw |-> <<"m","c","p","_","x">>, lower |-> <<"m","c","p","_","x">>],
   [raw |-> <<"l","s">>, lower |-> <<"l","s">>]}

\* Allowed-tools entries of the form prefix:*, with the prefix they name.
PrefixPatterns ==
  {[raw |-> <<"b","a","s","h",":","*">>, prefix |-> <<"b","a","s","h">>],
   [raw |-> <<"B","a","s","h",":","*">>, prefix |-> <<"b","a","s","h">>],
   [raw |-> <<" ","b","a","s","h",":","*"," ">>, prefix |-> <<"b","a","s","h">>],
   [raw |-> <<"g","i","t",":","*">>, prefix |-> <<"g","i","t">>],
   [raw |-> <<"G","i","t",":","*">>, prefix |-> <<"g","i","t">>],
   [raw |-> <<"m","c","p",":","*">>, prefix |-> <<"m","c","p">>],
   [raw |-> <<"m","c","p","_",":","*">>, prefix |-> <<"m","c","p","_">>]}

AllowedInputs ==
  [tool : ToolNameInputs,
   allowed : UNION {[1..k -> PrefixPatterns] : k \in 1..MaxPatterns}]

\* ensureToolAllowedByActiveSkill asks IsToolAllowed about one tool name.
CheckAllowed ==
  /\ fnOut = <<>>
  /\ fnOut' = <<IsToolAllowed(fnIn.tool.raw,
                              [i \in 1..Len(fnIn.allowed) |-> fnIn.allowed[i].raw])>>
  /\ UNCHANGED <<confVars, apc, pc, orchReq, stateVars, seenToolUseIDs, minted,
                 sent, fellBack, toolVars, env, ctxDone, err, loopCalls,
                 compactCalls, inputsUsed, lastPoll, appended, dispatchLog, stops,
                 endTurnApplied, fallbacks, pipelineLog, fnIn, toolsApplied,
                 callbacks, chanVars, agentResult>>

InitAllowed ==
  InitState({PlainAgent(1)}, {PlainRequest}, {PlainWorld}, {"Execute"}, AllowedInputs)

SpecAllowed == InitAllowed /\ [][CheckAllowed]_vars

\* ------------------------------------------------- instruction loading

DefaultMaxBytes == 32768
MaxDirs == 3
MinSection == 6
MaxSection == 8
MaxBytes == 18

\* strings.Join(parts, "\n\n")
RECURSIVE JoinParts(_)
JoinParts(parts) ==
  IF parts = <<>> THEN <<>>
  ELSE IF Len(parts) = 1 THEN parts[1]
  ELSE parts[1] \o <<"LF", "LF">> \o JoinParts(Tail(parts))

\* appendWithinLimit: the parts and the remaining budget afterwards, whether
\* the section (or a prefix of it) was appended and whether it was cut.
appendWithinLimit(parts, section, remaining) ==
  LET separatorLen == IF Len(parts) > 0 THEN 2 ELSE 0
      needed == separatorLen + Len(section)
      available == remaining - separatorLen
      cut == IF available > Len(section) THEN Len(section) ELSE available
  IN IF remaining <= 0
       THEN [parts |-> parts, remaining |-> remaining,
             appended |-> FALSE, truncated |-> TRUE]
     ELSE IF needed <= remaining
       THEN [parts |-> Append(parts, section), remaining |-> remaining - needed,
             appended |-> TRUE, truncated |-> FALSE]
     ELSE IF available > 0
       THEN [parts |-> Append(parts, SubSeq(section, 1, cut)),
             remaining |-> remaining - (separatorLen + cut),
             appended |-> TRUE, truncated |-> TRUE]
     ELSE [parts |-> parts, remaining |-> remaining,
           appended |-> FALSE, truncated |-> TRUE]

\* The loop of Load over the directory layers from the root down.  A layer
\* is the section of its first readable non-blank candidate, <<>> when it
\* has none.
RECURSIVE LoadDirs(_, _, _, _, _)
LoadDirs(dirs, parts, sources, remaining, truncated) ==
  IF dirs = <<>>
    THEN [Content |-> JoinParts(parts), Sources |-> sources, Truncated |-> truncated]
  ELSE LET r == IF Head(dirs) = <<>>
                  THEN [parts |-> parts, remaining |-> remaining,
                        appended |-> FALSE, truncated |-> FALSE]
                  ELSE appendWithinLimit(parts, Head(dirs), remaining)
           nowTruncated == truncated \/ r.truncated
           nowSources == IF r.appended THEN sources + 1 ELSE sources
       IN IF nowTruncated \/ r.remaining <= 0
            THEN [Content |-> JoinParts(r.parts), Sources |-> nowSources,
                  Truncated |-> nowTruncated]
            ELSE LoadDirs(Tail(dirs), r.parts, nowSources, r.remaining, nowTruncated)

\* instructions.Load on the sections of the layers, with opts.MaxBytes.
Load(dirs, maxBytes) ==
  LoadDirs(dirs, <<>>, 0, IF maxBytes <= 0 THEN DefaultMaxBytes ELSE maxBytes, FALSE)

\* "## <relpath>\n<content>" of n bytes.
Section(n) == [i \in 1..n |-> IF i <= 2 THEN "#" ELSE "x"]

LayerSections == {<<>>} \cup {Section(n) : n \in MinSection..MaxSection}

LoadInputs ==
  [dirs : UNION {[1..k -> LayerSections] : k \in 1..MaxDirs}, maxBytes : 0..MaxBytes]

\* readRepoInstructions and the tools call Load on a working directory.
LoadInstructions ==
  /\ fnOut = <<>>
  /\ fnOut' = <<Load(fnIn.dirs, fnIn.maxBytes)>>
  /\ UNCHANGED <<confVars, apc, pc, orchReq, stateVars, seenToolUseIDs, minted,
                 sent, fellBack, toolVars, env, ctxDone, err, loopCalls,
                 compactCalls, inputsUsed, lastPoll, appended, dispatchLog, stops,
                 endTurnApplied, fallbacks, pipelineLog, fnIn, toolsApplied,
                 callbacks, chanVars, agentResult>>

InitLoad ==
  InitState({PlainAgent(1)}, {PlainRequest}, {PlainWorld}, {"Execute"}, LoadInputs)

SpecLoad == InitLoad /\ [][LoadInstructions]_vars

\* Streaming with an active skill: ExecuteStream runs in which a slash
\* command has activated a skill that allows Bash and Read only, and the
\* provider asks for an allowed tool, a blocked one and an unregistered one.
SkillStreamWorld ==
  [PlainWorld EXCEPT !.stops = {"end_turn", "tool_use"},
                     !.names = {"read_file", "write_file", "ghost"},
                     !.slash = {<<>>, <<AllowBashRead>>}]
InitSkillStream ==
  InitWith({[PlainAgent(2) EXCEPT !.EnableStreaming = TRUE]}, {PlainRequest},
           {SkillStreamWorld})

SpecSkillStream == InitSkillStream /\ [][Next]_vars

\* Unexpected stop reasons: capped and unbounded runs, transform_context and
\* convert_to_llm hooks that may fail, a steering fetcher that may deliver.
UnknownStopAgents == {PlainAgent(0), PlainAgent(2)}
UnknownStopRequests ==
  {[PlainRequest EXCEPT !.TransformContext = t, !.ConvertToLlm = c,
                        !.GetSteeringMessages = g] :
     t \in BOOLEAN, c \in BOOLEAN, g \in BOOLEAN}
UnknownStopWorld ==
  [PlainWorld EXCEPT !.hooks = {"keep", "err"}, !.polls = {"none", "msg"}]
InitUnknownStop ==
  InitWith(UnknownStopAgents, UnknownStopRequests, {UnknownStopWorld})

SpecUnknownStop == InitUnknownStop /\ [][Next]_vars

\* --------------------------------------------------------------- properties

\* Execute has built the orchestrator request and Run has started.
Started == pc # "start"

\* The iteration cap of the run: N when max_iterations = N > 0 and
\* disable_iteration_limit is not set, 0 when the run is unbounded.
RunCap ==
  IF ~orchReq.DisableIterationLimit /\ orchReq.MaxIterations > 0
    THEN orchReq.MaxIterations
    ELSE 0

\* The ids of all tool_use blocks of a message list, in order.
RECURSIVE UseIdsBetween(_, _, _)
UseIdsBetween(msgs, lo, hi) ==
  IF lo > hi THEN <<>>
  ELSE IF lo = hi THEN UseIdsOfBlocks(msgs[lo].content)
  ELSE UseIdsBetween(msgs, lo, (lo + hi) \div 2)
         \o UseIdsBetween(msgs, (lo + hi) \div 2 + 1, hi)

AllUseIds(msgs) == UseIdsBetween(msgs, 1, Len(msgs))

\* Every tool_result of the list names a tool_use of an earlier message.
ResolvesEarlier(msgs) ==
  \A i \in 1..Len(msgs) :
    \A r \in Range(ResultIdsOfBlocks(msgs[i].content)) :
      /\ r # ""
      /\ \E j \in 1..(i - 1) : r \in Range(UseIdsOfBlocks(msgs[j].content))

\* Every tool_result of the list names a tool_use of some message of the list.
ResolvesAnywhere(msgs) ==
  \A i \in 1..Len(msgs) :
    \A r \in Range(ResultIdsOfBlocks(msgs[i].content)) :
      /\ r # ""
      /\ \E j \in 1..Len(msgs) : r \in Range(UseIdsOfBlocks(msgs[j].content))

HasToolResult(msgs) ==
  \E i \in 1..Len(msgs) : ResultIdsOfBlocks(msgs[i].content) # <<>>

\* C1 as stated: with a cap of N in force, the provider calls made during
\* the run, the compactor's summarisation calls included, never exceed N.
C1_AllProviderCallsWithinCap ==
  RunCap > 0 => loopCalls + compactCalls <= RunCap

\* C1 amended: with a cap of N in force, the calls the loop itself makes
\* through callProvider never exceed N, at most one per iteration.
C1_LoopCallsWithinCap ==
  RunCap > 0 => (loopCalls <= RunCap /\ loopCalls <= iterations)

\* A capped run that used all its N loop calls and also called the
\* provider to compact.
C1_Witness ==
  pc = "done" /\ RunCap = 2 /\ loopCalls = 2 /\ compactCalls > 0

\* C2: the tool_use blocks appended to state.Messages have non-empty,
\* pairwise distinct ids.
C2_ToolUseIdsDistinct ==
  LET ids == AllUseIds(messages)
  IN /\ ids = appended
     /\ \A i \in 1..Len(ids) :
          /\ ids[i] # ""
          /\ \A j \in 1..Len(ids) : i # j => ids[i] # ids[j]

\* A finished run in which the provider's id was kept once and at least two
\* returned ids were replaced.
C2_Witness ==
  pc = "done" /\ "a" \in Range(appended) /\ minted >= 2 /\ Len(appended) >= 3

\* C3 as stated: when a provider call is about to be made, every tool_result
\* sent names a tool_use of an earlier sent message, or the run has taken the
\* validation fallback.
C3_SentResultsResolve ==
  pc = "call" => (ResolvesEarlier(sent) \/ fallbacks > 0)

\* C3 amended: with the default context rules enabled and no convert_to_llm
\* hook, every tool_result sent names a tool_use of the sent list (of an
\* earlier message when no transform_context hook is set), or this turn's
\* pipeline took the validation fallback.
C3_ValidatedOrFellBack ==
  (pc = "call" /\ ~orchReq.DisableDefaultContextRules /\ ~orchReq.ConvertToLlm) =>
    /\ ResolvesAnywhere(sent) \/ fellBack
    /\ ~orchReq.TransformContext => (ResolvesEarlier(sent) \/ fellBack)

\* A call about to be made with a tool_result in the sent list that passed
\* validation after the hook changed the context.
C3_Witness ==
  /\ pc = "call"
  /\ ~orchReq.DisableDefaultContextRules
  /\ ~orchReq.ConvertToLlm
  /\ orchReq.TransformContext
  /\ ~fellBack
  /\ HasToolResult(sent)
  /\ sent # messages

\* C4: the tool-result message appended after a tool-use turn is a user
\* message of tool_result blocks that carry, in the same order, the repaired
\* ids of the assistant message's tool_use blocks (of the first of them when
\* loop inputs interrupted the batch).
C4_ResultsFollowUses ==
  [][(pc = "tools" /\ pc' = "loop") =>
       LET uses == UseIdsOfBlocks(messages[Len(messages)].content)
           msg == messages'[Len(messages) + 1]
           res == ResultIdsOfBlocks(msg.content)
       IN /\ msg.role = "user"
          /\ Len(res) = Len(msg.content)
          /\ Len(res) <= Len(uses)
          /\ res = SubSeq(uses, 1, Len(res))
          /\ ~interrupted => Len(res) = Len(uses)
          /\ \A i \in 1..Len(uses) : uses[i] # ""]_vars

\* A tool-result message for two tool_use blocks, the second with a minted id.
C4_Witness ==
  /\ pc = "loop"
  /\ \E k \in 2..Len(messages) :
       /\ UseIdsOfBlocks(messages[k - 1].content) = <<"a", "tool_1">>
       /\ ResultIdsOfBlocks(messages[k].content) = <<"a", "tool_1">>

\* The dispatch happened under a set, non-empty allowlist that does not
\* match the tool.
Disallowed(d) ==
  /\ d.env.set
  /\ d.env.value # <<>>
  /\ ~IsToolAllowed(Chars(d.name), ParseAllowedToolsEnv(d.env.value))

\* A tool_result with is_error for this tool_use id has been produced.
HasErrorResult(id) ==
  \/ \E i \in 1..Len(results) : results[i].ID = id /\ results[i].Result.IsError
  \/ \E i \in 1..Len(messages) :
       \E k \in 1..Len(messages[i].content) :
         /\ messages[i].content[k].type = "tool_result"
         /\ messages[i].content[k].tool_use_id = id
         /\ messages[i].content[k].is_error

\* C5: under a set, non-empty ACTIVE_SKILL_ALLOWED_TOOLS a tool that
\* IsToolAllowed does not match is never run and gets an is_error result;
\* use_skill is dispatched all the same.
C5_AllowlistEnforced ==
  \A i \in 1..Len(dispatchLog) :
    LET d == dispatchLog[i]
    IN /\ (Disallowed(d) /\ d.name # "use_skill") =>
            (~d.ran /\ d.is_error /\ HasErrorResult(d.id))
       /\ d.name = "use_skill" => d.ran

\* A successful run in which write_file was blocked and use_skill ran under
\* an allowlist that does not match it.
C5_Witness ==
  /\ pc = "done"
  /\ err = ""
  /\ \E i \in 1..Len(dispatchLog) :
       /\ dispatchLog[i].name = "write_file"
       /\ Disallowed(dispatchLog[i])
       /\ ~dispatchLog[i].ran
  /\ \E i \in 1..Len(dispatchLog) :
       /\ dispatchLog[i].name = "use_skill"
       /\ Disallowed(dispatchLog[i])
       /\ dispatchLog[i].ran

\* The responses so far are K tool_use responses followed by one end_turn.
ToolTurnsThenEndTurn ==
  /\ stops # <<>>
  /\ stops[Len(stops)] = "end_turn"
  /\ \A i \in 1..(Len(stops) - 1) : stops[i] = "tool_use"

\* C6: with max_iterations <= 0 or disable_iteration_limit set the run never
\* ends with the iteration-limit error, and K tool_use responses followed by
\* an end_turn end it in success after exactly K+1 iterations and calls.
C6_UnboundedRuns ==
  (Started /\ (orchReq.MaxIterations <= 0 \/ orchReq.DisableIterationLimit)) =>
    /\ err # "iteration_limit"
    /\ ToolTurnsThenEndTurn =>
         /\ pc = "done"
         /\ err = ""
         /\ iterations = Len(stops)
         /\ loopCalls = Len(stops)

\* A run with the limit disabled over an agent default of 1: two tool_use
\* turns, then end_turn.
C6_Witness ==
  /\ agent.MaxIterations = 1
  /\ request.DisableIterationLimit
  /\ stops = <<"tool_use", "tool_use", "end_turn">>
  /\ pc = "done"
  /\ err = ""
  /\ iterations = 3

\* C7: the cap in force is decided by disable_iteration_limit first, then a
\* positive per-request max_iterations, then the agent default; the run
\* never exceeds it and the iteration-limit error comes exactly at it.
C7_Precedence ==
  Started =>
    /\ request.DisableIterationLimit => (RunCap = 0 /\ err # "iteration_limit")
    /\ (~request.DisableIterationLimit /\ request.MaxIterations > 0) =>
         RunCap = request.MaxIterations
    /\ (~request.DisableIterationLimit /\ request.MaxIterations <= 0) =>
         RunCap = (IF agent.MaxIterations > 0 THEN agent.MaxIterations ELSE 0)
    /\ RunCap > 0 => iterations <= RunCap
    /\ err = "iteration_limit" => (RunCap > 0 /\ iterations = RunCap)

\* A request cap of 1 over an agent default of 2 stopped the run after one
\* iteration.
C7_Witness ==
  /\ ~request.DisableIterationLimit
  /\ request.MaxIterations = 1
  /\ agent.MaxIterations = 2
  /\ err = "iteration_limit"
  /\ iterations = 1

\* C8 as stated: a request whose max_iterations is <= 0 runs unbounded.
C8_NonPositiveRequestUnbounded ==
  (Started /\ request.MaxIterations <= 0) =>
    (RunCap = 0 /\ err # "iteration_limit")

\* C8 amended: a request whose max_iterations is <= 0 leaves the agent's
\* setting in force: the run is capped at the agent's MaxIterations when
\* that is positive and the request does not disable the limit, and is
\* unbounded otherwise.
C8_AgentDefaultInForce ==
  (Started /\ request.MaxIterations <= 0) =>
    IF agent.MaxIterations > 0 /\ ~request.DisableIterationLimit
      THEN /\ RunCap = agent.MaxIterations
           /\ iterations <= agent.MaxIterations
      ELSE /\ RunCap = 0
           /\ err # "iteration_limit"

\* A request with max_iterations 0 stopped by the agent's cap of 1.
C8_Witness ==
  /\ request.MaxIterations = 0
  /\ ~request.DisableIterationLimit
  /\ agent.MaxIterations = 1
  /\ err = "iteration_limit"
  /\ iterations = 1

\* C9: with a cap of N, the iteration-limit error is returned with an
\* iteration count of N; an N-th response that is end_turn with no loop
\* inputs ends the run in success; and a run back at the head of the loop
\* after N iterations leaves it only by the iteration-limit error.
C9_IterationLimit ==
  /\ [](err = "iteration_limit" =>
          (pc = "done" /\ RunCap > 0 /\ iterations = RunCap))
  /\ []((/\ RunCap > 0
         /\ Len(stops) = RunCap
         /\ stops[Len(stops)] = "end_turn"
         /\ endTurnApplied # Len(stops)) => (pc = "done" /\ err = ""))
  /\ [][(pc = "loop" /\ RunCap > 0 /\ iterations = RunCap /\ pc' # "loop") =>
          (pc' = "done" /\ err' = "iteration_limit" /\ iterations' = RunCap)]_vars

\* A run capped at 2 whose second response was end_turn with loop inputs
\* applied, ended by the iteration-limit error.
C9_Witness ==
  /\ err = "iteration_limit"
  /\ RunCap = 2
  /\ iterations = 2
  /\ endTurnApplied = 2

ExpectedInputs(kind, who) ==
  IF kind = "msg" THEN <<NewTextMessage("user", who)>> ELSE <<>>

NewMessages == SubSeq(messages', Len(messages) + 1, Len(messages'))

\* The callbacks a step fired.
NewCallbacks == SubSeq(callbacks', Len(callbacks) + 1, Len(callbacks'))

\* The positions of value v in sequence q.
PositionsOf(q, v) == {i \in 1..Len(q) : q[i] = v}

\* C11: in every step that applies loop inputs, the steering messages are
\* appended before the follow-up messages, the steering callback fires
\* before the follow-up callback, and each callback fires once if its list
\* is non-empty and not at all otherwise.
C11_SteeringBeforeFollowUp ==
  [][LET st == PositionsOf(NewMessages, NewTextMessage("user", "steer"))
         fu == PositionsOf(NewMessages, NewTextMessage("user", "follow"))
         cs == PositionsOf(NewCallbacks, "steering_applied")
         cf == PositionsOf(NewCallbacks, "followup_applied")
     IN /\ \A i \in st : \A j \in fu : i < j
        /\ Cardinality(cs) = (IF st # {} THEN 1 ELSE 0)
        /\ Cardinality(cf) = (IF fu # {} THEN 1 ELSE 0)
        /\ \A i \in cs : \A j \in cf : i < j]_vars

\* One checkpoint delivered a steering and a follow-up message: both were
\* appended and both callbacks fired.
C11_Witness ==
  /\ \E i \in 1..(Len(messages) - 1) :
       /\ messages[i] = NewTextMessage("user", "steer")
       /\ messages[i + 1] = NewTextMessage("user", "follow")
  /\ \E k \in 1..(Len(callbacks) - 1) :
       /\ callbacks[k] = "steering_applied"
       /\ callbacks[k + 1] = "followup_applied"

DispatchedIds == {dispatchLog[i].id : i \in 1..Len(dispatchLog)}

ToolFault(d) == d.fault \in {"not_found", "error_result", "execute_failed"}

C14_MaxTokensAborts ==
  /\ [][(/\ pc = "call"
         /\ Len(stops') = Len(stops) + 1
         /\ stops'[Len(stops')] = "max_tokens") =>
          /\ pc' = "done"
          /\ err' = "max_tokens"
          /\ dispatchLog' = dispatchLog
          /\ toolCalls' = toolCalls
          /\ lastPoll' = lastPoll
          /\ inputsUsed' = inputsUsed
          /\ NewMessages = <<messages'[Len(messages')]>>
          /\ messages'[Len(messages')].role = "assistant"]_vars
  /\ [](err = "max_tokens" =>
          (pc = "done" /\ stops[Len(stops)] = "max_tokens" /\ loopCalls = Len(stops)))
  /\ [][pc = "done" =>
          (pc' = "done" /\ UNCHANGED <<loopCalls, compactCalls, dispatchLog,
                                       lastPoll, messages, err>>)]_vars

\* A second response with two tool_use blocks and stop_reason max_tokens
\* ended the run with none of them dispatched.
C14_Witness ==
  /\ err = "max_tokens"
  /\ loopCalls = 2
  /\ Len(UseIdsOfBlocks(messages[Len(messages)].content)) = 2
  /\ \A i \in 1..Len(dispatchLog) : dispatchLog[i].call = 1

\* C15: when ctx is done at the head of an iteration the loop starts no
\* iteration: Run returns the cancellation error (the iteration-limit error
\* if the cap was reached) with the state as it is: no provider call, no
\* tool dispatch, messages, iteration count, tool calls and usage unchanged.
C15_CancelledAtIterationHead ==
  /\ [][(pc = "loop" /\ ctxDone /\ pc' # "loop") =>
          /\ pc' = "done"
          /\ err' = (IF RunCap > 0 /\ iterations >= RunCap
                       THEN "iteration_limit" ELSE "cancelled")
          /\ UNCHANGED <<messages, iterations, toolCalls, usage, loopCalls,
                         compactCalls, dispatchLog>>]_vars
  /\ [](err = "cancelled" => (pc = "done" /\ ctxDone))

\* A run cancelled after its first tool turn: returned with one iteration,
\* one provider call and the tool call on record.
C15_Witness ==
  /\ err = "cancelled"
  /\ iterations = 1
  /\ loopCalls = 1
  /\ Len(toolCalls) = 1
  /\ Len(messages) = 3
  /\ usage.InputTokens = 1

\* C16: whenever Execute returns an error, the AgentResult returned with it is
\* a failure that carries the tool-call records and the usage totals the run
\* accumulated before it failed.
C16_FailureCarriesPartialResult ==
  (entry = "Execute" /\ apc = "finished" /\ err # "") =>
    /\ agentResult # <<>>
    /\ agentResult[1].Success = FALSE
    /\ Len(agentResult[1].ToolCalls) = Len(toolCalls)
    /\ \A i \in 1..Len(toolCalls) :
         agentResult[1].ToolCalls[i].Name = toolCalls[i].Name
    /\ agentResult[1].Usage.TotalIterations = iterations
    /\ agentResult[1].Usage.TotalInputTokens = usage.InputTokens
    /\ agentResult[1].Usage.TotalOutputTokens = usage.OutputTokens

\* The positions of the events of the given type on the events channel.
EventPositions(type) == {i \in 1..Len(eventCh) : eventCh[i].type = type}

\* Streaming is enabled neither on the agent nor in the request.
StreamingOff == ~agent.EnableStreaming /\ ~request.EnableStreaming

\* C17: an ExecuteStream run whose context is never cancelled ends in exactly
\* one of two ways: it failed, the error channel holds that one error and no
\* agent_end was emitted; or it succeeded, the error channel is empty and the
\* last event is the only agent_end, carrying the text of the final assistant
\* message and the usage totals of the run.  Until the worker has finished
\* there is neither an error nor an agent_end.
C17_ErrorOrAgentEnd ==
  /\ (entry = "ExecuteStream" /\ apc # "finished") =>
       (errCh = <<>> /\ EventPositions("agent_end") = {})
  /\ (entry = "ExecuteStream" /\ apc = "finished" /\ ~ctxDone) =>
       IF StreamingOff \/ err # ""
         THEN /\ errCh = <<IF StreamingOff THEN "streaming_disabled" ELSE err>>
              /\ EventPositions("agent_end") = {}
         ELSE /\ errCh = <<>>
              /\ EventPositions("agent_end") = {Len(eventCh)}
              /\ messages[Len(messages)].role = "assistant"
              /\ eventCh[Len(eventCh)].message =
                   GetText(messages[Len(messages)].content)
              /\ eventCh[Len(eventCh)].usage =
                   <<[TotalIterations |-> iterations,
                      TotalInputTokens |-> usage.InputTokens,
                      TotalOutputTokens |-> usage.OutputTokens]>>

\* A stream that succeeded on its second provider call, after a tool turn,
\* without cancellation: agent_end is on the channel.
C17_Witness ==
  /\ entry = "ExecuteStream"
  /\ apc = "finished"
  /\ ~ctxDone
  /\ err = ""
  /\ loopCalls = 2
  /\ Len(toolCalls) = 1
  /\ eventCh # <<>>
  /\ eventCh[Len(eventCh)].type = "agent_end"
  /\ eventCh[Len(eventCh)].message # <<>>

\* C18: when ctx was cancelled during an ExecuteStream run, the finished run
\* has delivered no agent_end after the cancellation (none at all, since none
\* is emitted before the end) and both channels are closed.
C18_NoAgentEndAfterCancel ==
  (entry = "ExecuteStream" /\ apc = "finished" /\ ctxDone) =>
    /\ EventPositions("agent_end") = {}
    /\ eventClosed
    /\ errClosed

\* C19: with streaming enabled neither on the agent nor in the request,
\* ExecuteStream starts no run: once it has returned, the events channel is
\* closed and empty, the error channel holds exactly the streaming_disabled
\* error and is closed, and neither the provider nor Run was ever reached.
C19_StreamingDisabled ==
  (entry = "ExecuteStream" /\ StreamingOff /\ apc # "idle") =>
    /\ apc = "finished"
    /\ eventCh = <<>>
    /\ eventClosed
    /\ errCh = <<"streaming_disabled">>
    /\ errClosed
    /\ pc = "start"
    /\ loopCalls = 0
    /\ compactCalls = 0
    /\ callbacks = <<>>

\* ExecuteStream has returned the two closed channels of a disabled stream.
C19_Witness ==
  /\ entry = "ExecuteStream"
  /\ StreamingOff
  /\ apc = "finished"
  /\ errCh = <<"streaming_disabled">>
  /\ eventClosed
  /\ errClosed

\* The place of an event type within a turn of the stream.
EventRank(type) ==
  IF type = "agent_start" THEN 0
  ELSE IF type = "message_delta" THEN 1
  ELSE IF type = "message_end" THEN 2
  ELSE IF type = "agent_end" THEN 4
  ELSE 3

\* C20: the events on the events channel are ordered: agent_start is the
\* first event and occurs only there, the events of an earlier turn precede
\* those of a later one, within a turn the message_delta events precede
\* message_end and the tool events follow it, and agent_end occurs only as
\* the last event.
C20_EventOrder ==
  /\ eventCh # <<>> => eventCh[1].type = "agent_start"
  /\ EventPositions("agent_start") \subseteq {1}
  /\ EventPositions("agent_end") \subseteq {Len(eventCh)}
  /\ \A i, j \in 1..Len(eventCh) :
       i < j =>
         /\ eventCh[i].turn <= eventCh[j].turn
         /\ eventCh[i].turn = eventCh[j].turn =>
              EventRank(eventCh[i].type) <= EventRank(eventCh[j].type)
         /\ (eventCh[i].type = "message_end" /\ eventCh[j].type = "message_end")
              => eventCh[i].turn < eventCh[j].turn

\* A complete stream of two turns: a delta, the message end and the tool
\* events of the first, a delta and the message end of the second.
C20_Witness ==
  /\ ~ctxDone
  /\ apc = "finished"
  /\ Len(eventCh) = 8
  /\ [i \in 1..8 |-> eventCh[i].type] =
       <<"agent_start", "message_delta", "message_end", "tool_call",
         "tool_result", "message_delta", "message_end", "agent_end">>

\* The concatenation of a list of texts.
RECURSIVE ConcatText(_)
ConcatText(texts) ==
  IF texts = <<>> THEN "" ELSE Head(texts) \o ConcatText(Tail(texts))

\* The text of a message as one string: its text blocks joined by newlines.
RECURSIVE JoinLines(_)
JoinLines(texts) ==
  IF texts = <<>> THEN ""
  ELSE IF Len(texts) = 1 THEN texts[1]
  ELSE texts[1] \o "\n" \o JoinLines(Tail(texts))

\* The texts of the message_delta events between the boundary (agent_start
\* or message_end) that precedes position j of the events channel and j.
RECURSIVE DeltaTextsBefore(_)
DeltaTextsBefore(j) ==
  IF j <= 1 \/ eventCh[j - 1].type \in {"agent_start", "message_end"} THEN <<>>
  ELSE IF eventCh[j - 1].type = "message_delta"
    THEN Append(DeltaTextsBefore(j - 1), eventCh[j - 1].delta)
  ELSE DeltaTextsBefore(j - 1)

\* Every message_end on the channel carries the concatenation of the deltas
\* since the previous boundary.
DeltasSpellMessages ==
  \A j \in EventPositions("message_end") :
    ConcatText(DeltaTextsBefore(j)) = JoinLines(eventCh[j].message)

\* C21 as stated: in every ExecuteStream run (here: even one whose context
\* is never cancelled) the deltas before a message_end spell its message.
C21_DeltasSpellEveryMessage ==
  (entry = "ExecuteStream" /\ ~ctxDone) => DeltasSpellMessages

\* C21: in an ExecuteStream run whose context is not cancelled and whose
\* provider implements Stream, streaming the text of each response, the
\* concatenation of the message_delta texts between consecutive
\* agent_start/message_end boundaries equals the message of the message_end
\* that closes them.
C21_StreamedDeltasSpellMessage ==
  (entry = "ExecuteStream" /\ ~ctxDone /\ world.streaming) => DeltasSpellMessages

\* A first turn streamed in two deltas, then its message_end with the whole
\* text.
C21_Witness ==
  /\ entry = "ExecuteStream"
  /\ ~ctxDone
  /\ Len(eventCh) >= 4
  /\ eventCh[2].type = "message_delta" /\ eventCh[2].delta = "rep"
  /\ eventCh[3].type = "message_delta" /\ eventCh[3].delta = "ly1"
  /\ eventCh[4].type = "message_end" /\ eventCh[4].message = <<"reply1">>

\* The types of the events on the events channel, in order.
EventTypes == [i \in 1..Len(eventCh) |-> eventCh[i].type]

\* C22: with streaming enabled and a provider that implements only Call no
\* message_delta event is ever emitted, and an uncancelled run of one
\* successful turn delivers exactly agent_start, message_end (with the text
\* of the response), agent_end, and no error.
C22_FallbackToCall ==
  (/\ entry = "ExecuteStream"
   /\ agent.EnableStreaming \/ request.EnableStreaming
   /\ ~world.streaming) =>
    /\ EventPositions("message_delta") = {}
    /\ (apc = "finished" /\ ~ctxDone /\ loopCalls = 1 /\ err = "") =>
         /\ EventTypes = <<"agent_start", "message_end", "agent_end">>
         /\ eventCh[2].message = <<"reply1">>
         /\ errCh = <<>>
         /\ eventClosed /\ errClosed

\* The fallback run has finished: one Call, three events.
C22_Witness ==
  /\ entry = "ExecuteStream"
  /\ request.EnableStreaming
  /\ ~world.streaming
  /\ apc = "finished"
  /\ ~ctxDone
  /\ loopCalls = 1
  /\ err = ""
  /\ Len(eventCh) = 3

\* The latest pipeline run, once there was one.
PipelineRan == pipelineLog # <<>>

\* The max_messages in force: the request's value, 50 when it is not positive.
RunMaxMessages ==
  IF orchReq.MaxMessages <= 0 THEN 50 ELSE orchReq.MaxMessages

\* The four steps of the latest pipeline run, each applied to the output of
\* the one before it: what the user transform returned for state.Messages,
\* what the compactor made of that, what truncation made of that.
AfterUserTransform ==
  IF orchReq.TransformContext
    THEN ApplyHook(pipelineLog[1].hook, pipelineLog[1].input)
    ELSE pipelineLog[1].input

Compacted ==
  /\ orchReq.CompactConfig.Enabled
  /\ Len(AfterUserTransform) > orchReq.CompactConfig.Threshold
  /\ pipelineLog[1].compactOK

AfterCompact ==
  IF Compacted THEN Compact(orchReq.CompactConfig, AfterUserTransform)
  ELSE AfterUserTransform

AfterTruncate ==
  IF Len(AfterCompact) <= RunMaxMessages THEN AfterCompact
  ELSE truncateMessages(AfterCompact, RunMaxMessages)

\* C23: the output of the context pipeline is the user transform (if set)
\* applied to state.Messages, then compaction (if a compactor is present),
\* then truncation, then the tool-pair validation, which passes the list on
\* or falls back to the full history; with the default rules disabled it is
\* the output of the user transform alone, so that without hooks the whole
\* history is sent, however long.
C23_PipelineOrder ==
  (PipelineRan /\ ~(orchReq.TransformContext /\ pipelineLog[1].hook = "err")) =>
    /\ pipelineLog[1].context =
         IF orchReq.DisableDefaultContextRules THEN AfterUserTransform
         ELSE IF ResolvesAnywhere(AfterTruncate) THEN AfterTruncate
         ELSE IF Compacted THEN AfterCompact
         ELSE pipelineLog[1].input
    /\ (/\ pc = "call"
        /\ orchReq.DisableDefaultContextRules
        /\ ~orchReq.TransformContext
        /\ ~orchReq.ConvertToLlm) => sent = messages

\* A provider call about to be made with the default rules disabled and
\* three messages, one more than max_messages, in the request.
C23_Witness ==
  /\ pc = "call"
  /\ orchReq.DisableDefaultContextRules
  /\ ~orchReq.TransformContext
  /\ ~orchReq.ConvertToLlm
  /\ RunMaxMessages = 2
  /\ Len(sent) = 3

\* C24: the messages of the provider request are what convert_to_llm
\* returned for the output of this turn's pipeline, and the pipeline output
\* itself when no hook is set.
C24_ConvertAfterPipeline ==
  pc = "call" =>
    /\ PipelineRan
    /\ sent = IF orchReq.ConvertToLlm
                THEN ApplyHook(pipelineLog[1].conv, pipelineLog[1].context)
                ELSE pipelineLog[1].context
    /\ pipelineLog[1].input = messages \/ Compacted

\* A call about to be made with messages the convert hook changed, after a
\* pipeline that truncated the history.
C24_Witness ==
  /\ pc = "call"
  /\ orchReq.ConvertToLlm
  /\ pipelineLog[1].conv = "add"
  /\ ~orchReq.DisableDefaultContextRules
  /\ Len(pipelineLog[1].context) < Len(pipelineLog[1].input)
  /\ Len(sent) = Len(pipelineLog[1].context) + 1
  /\ sent # messages

\* The number of occurrences of v in the sequence q.
Occurrences(q, v) == Cardinality({i \in 1..Len(q) : q[i] = v})

\* C25: when the request sets on_iteration, the callback has been called once
\* for each loop iteration of an Execute run.
C25_OnIterationCalled ==
  (entry = "Execute" /\ request.OnIteration /\ apc = "finished") =>
    Occurrences(callbacks, "iteration") = iterations

\* C26: a tool is executed only if the request's allowed_tools is empty or
\* lists it, and never if the request's denied_tools lists it.
C26_ToolListsRestrict ==
  \A i \in 1..Len(dispatchLog) :
    dispatchLog[i].ran =>
      /\ request.AllowedTools # {} => dispatchLog[i].name \in request.AllowedTools
      /\ dispatchLog[i].name \notin request.DeniedTools

\* The default of MaxIterations in the options tables of the README.
DocumentedMaxIterations == 50

\* C27: a run of an agent constructed without MaxIterations, with no
\* per-request override, is capped at the documented default: after 50
\* iterations the loop condition no longer holds.
C27_DefaultCapIsFifty ==
  (/\ Started
   /\ agent.MaxIterations = 0
   /\ request.MaxIterations = 0
   /\ ~request.DisableIterationLimit) =>
    /\ RunCap = DocumentedMaxIterations
    /\ ~LoopCondition(orchReq, DocumentedMaxIterations)

\* The discovered skills whose name is the requested one; when there is none,
\* those whose name is the requested one up to case.
Candidates ==
  LET exact == {i \in 1..Len(fnIn.skills) : fnIn.skills[i].Name = fnIn.name}
      folded == {i \in 1..Len(fnIn.skills) :
                   ToLower(fnIn.skills[i].Name) = ToLower(fnIn.name)}
  IN IF exact # {} THEN exact ELSE folded

\* The rank of a skill's scope and its score, as the specification gives them.
RankOf(skill) ==
  IF skill.Scope = "project" THEN 3
  ELSE IF skill.Scope = "personal" THEN 2
  ELSE IF skill.Scope = "system" THEN 1
  ELSE 0

ScoreOf(skill) == RankOf(skill) * 1000000 + skill.sourceOrder

\* C28: ResolveForInvocation returns skill_not_found when no skill matches;
\* otherwise it returns a candidate (an exact-name match, a case-insensitive
\* one only when there is no exact match) whose score is the highest, with
\* the smallest path among the candidates of that score, and whose scope rank
\* is therefore at least that of every other candidate.
C28_ResolveForInvocation ==
  fnOut # <<>> =>
    IF Candidates = {}
      THEN fnOut[1].err = "skill_not_found" /\ fnOut[1].skill = <<>>
      ELSE /\ fnOut[1].err = ""
           /\ \E i \in Candidates : fnOut[1].skill = <<fnIn.skills[i]>>
           /\ \A j \in Candidates :
                LET got == fnOut[1].skill[1]
                    other == fnIn.skills[j]
                IN /\ ScoreOf(got) >= ScoreOf(other)
                   /\ RankOf(got) >= RankOf(other)
                   /\ (ScoreOf(got) = ScoreOf(other) /\ got # other) =>
                        LexLess(got.Path, other.Path)

\* Three skills named G, no exact match for g: the project one is returned
\* although it comes last and another candidate of its score has a larger
\* path.
C28_Witness ==
  /\ fnOut # <<>>
  /\ fnIn.name = <<"g">>
  /\ Len(fnIn.skills) = 3
  /\ Candidates = {1, 2, 3}
  /\ fnIn.skills[1].Scope = "system"
  /\ fnIn.skills[2].Scope = "project" /\ fnIn.skills[2].Path = <<"b">>
  /\ fnIn.skills[3].Scope = "project" /\ fnIn.skills[3].Path = <<"a">>
  /\ fnIn.skills[2].sourceOrder = fnIn.skills[3].sourceOrder
  /\ fnOut[1].skill = <<fnIn.skills[3]>>

\* This step accepts a provider response that holds tool_use blocks.
AcceptsToolUses ==
  /\ pc = "call"
  /\ Len(stops') = Len(stops) + 1
  /\ Len(messages') > Len(messages)
  /\ UseIdsOfBlocks(messages'[Len(messages) + 1].content) # <<>>

\* C29 as stated: every response that holds a tool_use block and whose stop
\* reason is not max_tokens has its tools executed next.
C29_ToolUsesAlwaysExecuted ==
  [][(AcceptsToolUses /\ stops'[Len(stops')] # "max_tokens") =>
       (pc' = "tools"
        /\ [i \in 1..Len(toolUses') |-> toolUses'[i].id] =
             UseIdsOfBlocks(messages'[Len(messages) + 1].content))]_vars

\* C29 amended: a response that holds a tool_use block and whose stop reason
\* is neither max_tokens nor end_turn has its tools executed (subject to the
\* allowlist and to interruption) before the loop returns or calls the
\* provider again; after an end_turn response no tool is executed.
C29_ToolUsesExecutedUnlessEndTurn ==
  /\ [][(AcceptsToolUses /\ stops'[Len(stops')] \notin {"max_tokens", "end_turn"}) =>
          (pc' = "tools"
           /\ [i \in 1..Len(toolUses') |-> toolUses'[i].id] =
                UseIdsOfBlocks(messages'[Len(messages) + 1].content))]_vars
  /\ [][pc = "tools" =>
          /\ pc' \in {"tools", "loop"}
          /\ loopCalls' = loopCalls
          /\ (pc' = "loop" /\ ~interrupted) =>
               \A i \in 1..Len(toolUses) : toolUses[i].id \in DispatchedIds]_vars
  /\ [][(AcceptsToolUses /\ stops'[Len(stops')] = "end_turn") =>
          (pc' \in {"done", "loop"} /\ dispatchLog' = dispatchLog /\ toolUses' = <<>>)]_vars

\* A response with stop reason stop_sequence and two tool_use blocks, both
\* dispatched before the loop went on.
C29_Witness ==
  /\ pc = "loop"
  /\ stops = <<"stop_sequence">>
  /\ Len(dispatchLog) = 2
  /\ dispatchLog[1].call = 1 /\ dispatchLog[1].ran
  /\ dispatchLog[2].call = 1 /\ dispatchLog[2].ran

\* The history handed to truncateMessages, what it returned, and the ideal
\* cut point len - max_messages + 1 (a 0-based index into the input).
TruncIn == fnIn.messages

TruncOut == fnOut[1]

TruncIdeal == Len(TruncIn) - fnIn.maxMessages + 1

Truncated == fnOut # <<>> /\ Len(TruncIn) > fnIn.maxMessages

\* The 0-based index of the input at which the retained suffix starts.
KeptFrom == Len(TruncIn) - Len(TruncOut) + 1

\* The output is the first message followed by the input from KeptFrom on,
\* a cut at the ideal point or before it.
FirstThenSuffix ==
  /\ TruncOut[1] = TruncIn[1]
  /\ KeptFrom \in 1..TruncIdeal
  /\ \A i \in 2..Len(TruncOut) : TruncOut[i] = TruncIn[KeptFrom + i - 1]

UseIdsAt(msgs, i) == Range(UseIdsOfBlocks(At(msgs, i).content)) \ {""}

\* With the suffix starting at k, every tool_use that a retained tool_result
\* names and that the dropped middle could supply is retained.
ClosedAt(k) ==
  \A i \in k..(Len(TruncIn) - 1) :
    \A r \in Range(ResultIdsOfBlocks(At(TruncIn, i).content)) \ {""} :
      \/ r \in UseIdsAt(TruncIn, 0)
      \/ \E j \in k..(Len(TruncIn) - 1) : r \in UseIdsAt(TruncIn, j)
      \/ ~\E j \in 1..(k - 1) : r \in UseIdsAt(TruncIn, j)

UniqueUseIds(msgs) == \A i, j \in 1..Len(AllUseIds(msgs)) :
                        i # j => AllUseIds(msgs)[i] # AllUseIds(msgs)[j]

\* C30 as stated: for every message list longer than max_messages,
\* truncation returns the first message followed by a contiguous suffix of
\* the list, extended backwards until every tool_use referenced by a
\* retained tool_result is retained; when every tool_result of the input has
\* its tool_use in an earlier message, no tool_result of the output is
\* orphaned.
C30_TruncationClosesEveryList ==
  Truncated =>
    /\ FirstThenSuffix
    /\ ClosedAt(KeptFrom)
    /\ ResolvesEarlier(TruncIn) => ResolvesAnywhere(TruncOut)

\* C30 amended: for every message list longer than max_messages, truncation
\* returns the first message followed by a contiguous suffix of the list
\* that starts at the ideal cut point or before it; when the list exceeds
\* max_messages by no more than the 100 passes of the fixed-point loop, the
\* suffix is the shortest such suffix that retains every tool_use referenced
\* by a retained tool_result, and when every tool_result of the input has its
\* tool_use in an earlier message no tool_result of the output is orphaned
\* (and, with tool_use ids that do not repeat, each still follows its
\* tool_use).
C30_TruncationClosesWithinPasses ==
  Truncated =>
    /\ FirstThenSuffix
    /\ Len(TruncIn) - fnIn.maxMessages <= TruncateSafetyLimit =>
         /\ ClosedAt(KeptFrom)
         /\ \A k \in (KeptFrom + 1)..TruncIdeal : ~ClosedAt(k)
         /\ ResolvesEarlier(TruncIn) => ResolvesAnywhere(TruncOut)
         /\ (ResolvesEarlier(TruncIn) /\ UniqueUseIds(TruncIn)) =>
              ResolvesEarlier(TruncOut)

\* A history whose tool_results all resolve earlier was cut, and the suffix
\* had to be extended backwards from the ideal point to keep a tool_use.
C30_Witness ==
  /\ Truncated
  /\ ResolvesEarlier(TruncIn)
  /\ KeptFrom < TruncIdeal
  /\ HasToolResult(TruncOut)
  /\ Len(TruncOut) < Len(TruncIn)

\* The window the validation step of the latest pipeline run was handed has
\* a tool_result whose tool_use_id is empty or carried by no tool_use of it.
WindowHasOrphan ==
  /\ PipelineRan
  /\ ~orchReq.DisableDefaultContextRules
  /\ ~(orchReq.TransformContext /\ pipelineLog[1].hook = "err")
  /\ ~ResolvesAnywhere(AfterTruncate)

\* C31: when the tool-pair validation finds a tool_result whose tool_use_id
\* is empty or not resolved in the window of the earlier pipeline steps, the
\* run is not aborted by it, and the messages handed on for the turn are
\* exactly state.Messages at that moment; without a convert hook they are
\* the messages of the provider request.
C31_ValidationFallsBack ==
  WindowHasOrphan =>
    /\ err # "transform_error"
    /\ pc = "call" =>
         /\ fellBack
         /\ pipelineLog[1].context = messages
         /\ ~orchReq.ConvertToLlm => sent = messages
    /\ (pc = "done" /\ loopCalls < iterations /\ ~ctxDone) =>
         (orchReq.ConvertToLlm /\ err = "convert_error")

\* A provider call about to be made with the full history of three messages
\* after the window, cut to max_messages, failed the validation.
C31_Witness ==
  /\ pc = "call"
  /\ WindowHasOrphan
  /\ Len(AfterTruncate) < Len(messages)
  /\ ~orchReq.ConvertToLlm
  /\ sent = messages

\* The compaction step of the latest pipeline run called Compact: the
\* default rules are on, the user transform did not fail, a compactor is
\* present and ShouldCompact held for the list it was handed.
CompactStepRan ==
  /\ PipelineRan
  /\ ~orchReq.DisableDefaultContextRules
  /\ ~(orchReq.TransformContext /\ pipelineLog[1].hook = "err")
  /\ orchReq.CompactConfig.Enabled
  /\ Len(AfterUserTransform) > orchReq.CompactConfig.Threshold

IsPrefix(s, t) == Len(s) <= Len(t) /\ SubSeq(t, 1, Len(s)) = s

\* What truncation and validation make of the uncompacted list.
UncompactedOn ==
  LET cut == IF Len(AfterUserTransform) <= RunMaxMessages THEN AfterUserTransform
             ELSE truncateMessages(AfterUserTransform, RunMaxMessages)
  IN IF ResolvesAnywhere(cut) THEN cut ELSE pipelineLog[1].input

\* C32: when the compaction step calls Compact and it succeeds, the
\* compacted list is written to state.Messages, and the history of the rest
\* of the run, the returned one included, starts with it; when Compact
\* fails the run is not aborted, state.Messages is left as it was and the
\* uncompacted list goes on to truncation and validation.
C32_CompactionPersistsOrFallsBack ==
  CompactStepRan =>
    /\ err # "transform_error"
    /\ (pc = "done" /\ loopCalls < iterations /\ ~ctxDone) =>
         (orchReq.ConvertToLlm /\ err = "convert_error")
    /\ pipelineLog[1].compactOK =>
         /\ IsPrefix(Compact(orchReq.CompactConfig, AfterUserTransform), messages)
         /\ pc = "call" =>
              messages = Compact(orchReq.CompactConfig, AfterUserTransform)
    /\ ~pipelineLog[1].compactOK =>
         /\ IsPrefix(pipelineLog[1].input, messages)
         /\ pipelineLog[1].context = UncompactedOn
         /\ pc = "call" => messages = pipelineLog[1].input

\* A run that returned without error after its last turn compacted a
\* history of three messages into the summary and the most recent message,
\* and appended the response to that.
C32_Witness ==
  /\ pc = "done"
  /\ err = ""
  /\ CompactStepRan
  /\ pipelineLog[1].compactOK
  /\ Len(pipelineLog[1].input) = 3
  /\ Len(messages) = 3
  /\ messages[1] = NewTextMessage("assistant", "summary")

StartsWith(v, p) == Len(p) <= Len(v) /\ [i \in 1..Len(p) |-> v[i]] = p

\* C33 as stated: an allowed-tools pattern prefix:* allows exactly the tools
\* whose lowercased name starts with prefix followed by an underscore.
C33_PrefixColonIsPrefixUnderscore ==
  fnOut # <<>> =>
    (fnOut[1] <=> \E i \in 1..Len(fnIn.allowed) :
                    StartsWith(fnIn.tool.lower, fnIn.allowed[i].prefix \o <<"_">>))

\* C33 amended: an allowed-tools pattern prefix:* is treated as prefix*: it
\* allows exactly the tools whose lowercased name starts with prefix, with
\* or without an underscore after it; git:* alone is treated as git_* and
\* allows exactly the tools whose lowercased name starts with git_.
C33_PrefixColonIsPrefixStar ==
  fnOut # <<>> =>
    (fnOut[1] <=> \E i \in 1..Len(fnIn.allowed) :
                    StartsWith(fnIn.tool.lower,
                               IF fnIn.allowed[i].prefix = <<"g","i","t">>
                                 THEN <<"g","i","t","_">>
                                 ELSE fnIn.allowed[i].prefix))

\* bash:* was the only pattern and allowed the tool Bash, whose name has no
\* underscore after the prefix.
C33_Witness ==
  /\ fnOut = <<TRUE>>
  /\ Len(fnIn.allowed) = 1
  /\ fnIn.allowed[1].prefix = <<"b","a","s","h">>
  /\ fnIn.tool.raw = <<"B","a","s","h">>

\* The byte cap in force for the Load that ran.
LoadCap == IF fnIn.maxBytes <= 0 THEN 32768 ELSE fnIn.maxBytes

\* The sections of the layers that have one, in load order.
RECURSIVE PresentSections(_)
PresentSections(dirs) ==
  IF dirs = <<>> THEN <<>>
  ELSE IF Head(dirs) = <<>> THEN PresentSections(Tail(dirs))
  ELSE <<Head(dirs)>> \o PresentSections(Tail(dirs))

\* The length of all the sections joined by blank lines, were there no cap.
RECURSIVE FullLength(_)
FullLength(sections) ==
  IF sections = <<>> THEN 0
  ELSE IF Len(sections) = 1 THEN Len(sections[1])
  ELSE Len(sections[1]) + 2 + FullLength(Tail(sections))

\* C34: the content Load returns is never longer than max_bytes, separators
\* included, and the result is marked truncated whenever the cap caused any
\* part of a section to be cut or left out.
C34_CapRespectedAndMarked ==
  fnOut # <<>> =>
    /\ Len(fnOut[1].Content) <= LoadCap
    /\ Len(fnOut[1].Content) < FullLength(PresentSections(fnIn.dirs)) =>
         fnOut[1].Truncated

\* The run has returned without error.
ReturnedSuccess == pc = "done" /\ err = ""

\* The tool_result ids of the message after messages[i], none at the end.
ResultIdsAfter(i) ==
  IF i < Len(messages) THEN ResultIdsOfBlocks(messages[i + 1].content) ELSE <<>>

\* The number of assistant messages among messages[1..i]: the provider call
\* that produced messages[i] when the history is never compacted.
CallOf(i) == Cardinality({j \in 1..i : messages[j].role = "assistant"})

IsLoopInput(m) == m.content \in {<<TextBlock("steer")>>, <<TextBlock("follow")>>}

\* C35 as stated: when a run returns success, every tool_use block of the
\* returned history is answered by exactly one tool_result block with the
\* same id, in the message right after the assistant message that holds it.
C35_EveryToolUseAnswered ==
  ReturnedSuccess =>
    \A i \in 1..Len(messages) :
      \A u \in Range(UseIdsOfBlocks(messages[i].content)) :
        /\ Occurrences(ResultIdsAfter(i), u) = 1
        /\ \A j \in 1..Len(messages) :
             j # i + 1 => Occurrences(ResultIdsOfBlocks(messages[j].content), u) = 0

\* C35 amended: when a run returns success, the tool_result blocks of the
\* message right after an assistant message answer its tool_use blocks in
\* order, one each, and no other message answers them; all of them are
\* answered unless the response's stop reason was end_turn (none is, the
\* tools are not executed) or loop inputs interrupted the batch (only the
\* tool_uses processed so far are, and the applied loop input follows).
C35_ToolUsesAnsweredUnlessCutShort ==
  ReturnedSuccess =>
    \A i \in 1..Len(messages) :
      LET U == UseIdsOfBlocks(messages[i].content)
          R == ResultIdsAfter(i)
      IN U # <<>> =>
           /\ IsPrefix(R, U)
           /\ \A j \in 1..Len(messages) : \A u \in Range(U) :
                j # i + 1 => Occurrences(ResultIdsOfBlocks(messages[j].content), u) = 0
           /\ stops[CallOf(i)] = "end_turn" => R = <<>>
           /\ stops[CallOf(i)] # "end_turn" =>
                /\ R # <<>>
                /\ R = U \/ (i + 2 <= Len(messages) /\ IsLoopInput(messages[i + 2]))

\* A run that returned success with a response of two tool_use blocks, both
\* answered in order by the next message, in its history.
C35_Witness ==
  /\ ReturnedSuccess
  /\ \E i \in 1..Len(messages) :
       /\ Len(UseIdsOfBlocks(messages[i].content)) = 2
       /\ ResultIdsAfter(i) = UseIdsOfBlocks(messages[i].content)

\* The message the transform_context hook of the model adds to the context.
HookNote == NewTextMessage("user", "note")

\* C36: what the transform_context hook adds to or removes from the context
\* of a turn is never written into state.Messages: the history never holds
\* the hook's message, and after a pipeline run state.Messages is what it
\* was before, or the compaction of that, whatever the hook did.
C36_HookChangesNotPersisted ==
  /\ \A i \in 1..Len(messages) : messages[i] # HookNote
  /\ (PipelineRan /\ pc = "call") =>
       messages \in {pipelineLog[1].input,
                     Compact(orchReq.CompactConfig, pipelineLog[1].input)}

\* C37 as stated: in every run that returns without error the iteration
\* count reported in the result equals the number of provider calls made
\* during the run, the compactor's summarisation calls included.
C37_IterationsAreAllProviderCalls ==
  ReturnedSuccess =>
    /\ iterations = loopCalls + compactCalls
    /\ (entry = "Execute" /\ apc = "finished") =>
         agentResult[1].Usage.TotalIterations = loopCalls + compactCalls

\* C37 amended: in every run that returns without error the iteration count
\* reported in the result equals the number of provider calls the loop made
\* through callProvider, one per iteration; the calls the compactor makes to
\* summarise are not counted.
C37_IterationsAreLoopCalls ==
  ReturnedSuccess =>
    /\ iterations = loopCalls
    /\ (entry = "Execute" /\ apc = "finished") =>
         agentResult[1].Usage.TotalIterations = loopCalls

\* Execute returned success after two iterations, one of which also called
\* the provider to compact.
C37_Witness ==
  /\ ReturnedSuccess
  /\ entry = "Execute"
  /\ apc = "finished"
  /\ agentResult[1].Usage.TotalIterations = 2
  /\ loopCalls = 2
  /\ compactCalls = 1

\* The positions of the tool_result events up to position p: the p-th one
\* reports the dispatch of that number.
ResultsUpTo(p) == Cardinality({q \in 1..p : eventCh[q].type = "tool_result"})

\* C38 as stated: in an ExecuteStream run whose context is not cancelled
\* every tool_result event is preceded by a tool_call event with the same
\* tool name, and there are as many tool_call events as tool_result events,
\* blocked and unregistered tools included.
C38_EveryResultHasItsCall ==
  (entry = "ExecuteStream" /\ ~ctxDone) =>
    /\ \A p \in 1..Len(eventCh) :
         eventCh[p].type = "tool_result" =>
           /\ p > 1
           /\ eventCh[p - 1].type = "tool_call"
           /\ eventCh[p - 1].tool = eventCh[p].tool
    /\ pc # "tools" =>
         Cardinality(EventPositions("tool_call")) =
           Cardinality(EventPositions("tool_result"))

\* C38 amended: in an ExecuteStream run whose context is not cancelled
\* every dispatched tool_use has one tool_result event with its tool name,
\* in dispatch order; the event right before it is the tool_call event with
\* the same name when the tool_use passed the active-skill allowlist, an
\* unregistered tool included, and is not a tool_call when the allowlist
\* blocked it, so there are as many tool_call events as tool_uses that
\* passed the allowlist.
C38_ResultHasCallUnlessBlocked ==
  (entry = "ExecuteStream" /\ ~ctxDone) =>
    /\ Cardinality(EventPositions("tool_result")) = Len(dispatchLog)
    /\ \A p \in 1..Len(eventCh) :
         eventCh[p].type = "tool_result" =>
           /\ p > 1
           /\ eventCh[p].tool = dispatchLog[ResultsUpTo(p)].name
           /\ IF dispatchLog[ResultsUpTo(p)].fault = "blocked"
                THEN eventCh[p - 1].type # "tool_call"
                ELSE /\ eventCh[p - 1].type = "tool_call"
                     /\ eventCh[p - 1].tool = eventCh[p].tool
    /\ Cardinality(EventPositions("tool_call")) =
         Cardinality({i \in 1..Len(dispatchLog) : dispatchLog[i].fault # "blocked"})

\* A finished stream in which one response asked for a tool the active
\* skill blocks and for one it allows: three tool events, the result of the
\* blocked tool without a call.
C38_Witness ==
  /\ entry = "ExecuteStream"
  /\ ~ctxDone
  /\ apc = "finished"
  /\ Len(dispatchLog) = 2
  /\ dispatchLog[1].fault = "blocked"
  /\ dispatchLog[2].ran
  /\ Cardinality(EventPositions("tool_call")) = 1
  /\ Cardinality(EventPositions("tool_result")) = 2

\* The allowlist decision the code makes for tool name n under env value e.
BlockedUnder(e, n) ==
  /\ n # "use_skill"
  /\ TrimSpace(e.value) # <<>>
  /\ ~IsToolAllowed(Chars(n), ParseAllowedToolsEnv(TrimSpace(e.value)))

\* A dispatch of use_skill that ran and returned a result without error.
SkillSwitched(d) == d.name = "use_skill" /\ d.ran /\ d.fault = "ok"

\* C39: every tool_use is checked against the allowlist in force at the
\* moment of its own dispatch: it is blocked exactly when that value forbids
\* it, and the value in force changes between two dispatches of a run only by
\* a use_skill call that ran, whose new value (set or removed) is the one the
\* very next tool_use is checked against, in the same batch or a later turn.
C39_AllowlistReadAtEachDispatch ==
  /\ \A i \in 1..Len(dispatchLog) :
       (dispatchLog[i].fault = "blocked")
         <=> BlockedUnder(dispatchLog[i].env, dispatchLog[i].name)
  /\ \A i \in 2..Len(dispatchLog) :
       IF SkillSwitched(dispatchLog[i - 1])
         THEN dispatchLog[i].env \in {ActivateSkill(s) : s \in world.skills}
         ELSE dispatchLog[i].env = dispatchLog[i - 1].env
  /\ Len(dispatchLog) > 0 =>
       IF SkillSwitched(dispatchLog[Len(dispatchLog)])
         THEN env \in {ActivateSkill(s) : s \in world.skills}
         ELSE env = dispatchLog[Len(dispatchLog)].env

\* A use_skill call set an allowlist in the middle of a batch and the next
\* tool_use of the same batch, allowed under the old value, was blocked.
C39_Witness ==
  /\ Len(dispatchLog) >= 2
  /\ SkillSwitched(dispatchLog[1])
  /\ ~dispatchLog[1].env.set
  /\ dispatchLog[2].call = dispatchLog[1].call
  /\ dispatchLog[2].env.set
  /\ dispatchLog[2].fault = "blocked"
  /\ ~BlockedUnder(dispatchLog[1].env, dispatchLog[2].name)

\* A use_skill call removed the allowlist and a tool it had forbidden ran in a
\* later turn.
C39_WitnessRemoved ==
  \E i \in 2..Len(dispatchLog) :
    /\ SkillSwitched(dispatchLog[i - 1])
    /\ dispatchLog[i - 1].env.set
    /\ ~dispatchLog[i].env.set
    /\ dispatchLog[i].call > dispatchLog[i - 1].call
    /\ dispatchLog[i].ran
    /\ BlockedUnder(dispatchLog[i - 1].env, dispatchLog[i].name)

\* The stop reasons Run has a branch for.
HandledStops == {"end_turn", "max_tokens", "tool_use"}

\* The step accepts a response with an unhandled stop reason and no tool_use
\* block.
AcceptsUnknownStop ==
  /\ pc = "call"
  /\ Len(stops') = Len(stops) + 1
  /\ stops'[Len(stops')] \notin HandledStops
  /\ appended' = appended

\* Some response of the run so far had an unhandled stop reason and no
\* tool_use block.
HadUnknownStop ==
  \E i \in 1..Len(messages) :
    /\ messages[i].role = "assistant"
    /\ CallOf(i) <= Len(stops)
    /\ stops[CallOf(i)] \notin HandledStops
    /\ UseIdsOfBlocks(messages[i].content) = <<>>

\* After such a response the assistant message is appended and the loop is
\* back at its head: no return, no poll, no loop input, no tool dispatch.
UnknownStopGoesOn ==
  [][AcceptsUnknownStop =>
       /\ pc' = "loop"
       /\ err' = err
       /\ Len(messages') = Len(messages) + 1
       /\ SubSeq(messages', 1, Len(messages)) = messages
       /\ messages'[Len(messages')].role = "assistant"
       /\ lastPoll' = lastPoll
       /\ inputsUsed' = inputsUsed
       /\ dispatchLog' = dispatchLog
       /\ toolCalls' = toolCalls
       /\ iterations' = iterations]_vars

\* Every response has used up an iteration: under a cap of N the run gets at
\* most N responses, and after the N-th, when it is of this kind, the run
\* ends by the iteration-limit error unless it is cancelled first.
UnknownStopUsesIteration ==
  /\ [](Len(stops) <= iterations)
  /\ [](RunCap > 0 => iterations <= RunCap)
  /\ []((/\ RunCap > 0
         /\ Len(stops) = RunCap
         /\ stops[Len(stops)] \notin HandledStops
         /\ UseIdsOfBlocks(messages[Len(messages)].content) = <<>>
         /\ pc = "done") => err \in {"iteration_limit", "cancelled"})

\* The run ended by a later response, a provider failure or cancellation.
EndedAsListed ==
  \/ err = "" /\ stops[Len(stops)] = "end_turn"
  \/ err = "max_tokens" /\ stops[Len(stops)] = "max_tokens"
  \/ err = "provider_error"
  \/ err = "cancelled" /\ ctxDone

\* C40 as stated: a response with an unhandled stop reason and no tool_use
\* block neither ends the run nor polls loop inputs, the loop goes straight
\* to its next iteration, such responses use up iterations under a cap, and
\* an unbounded run that got one ends only by a later response, a provider
\* failure or cancellation.
C40_UnknownStopEndsOnlyAsListed ==
  /\ UnknownStopGoesOn
  /\ UnknownStopUsesIteration
  /\ []((HadUnknownStop /\ RunCap = 0 /\ pc = "done") => EndedAsListed)

\* C40 amended: as stated, except that an unbounded run that got such a
\* response also ends when the transform_context or the convert_to_llm hook
\* of a later iteration fails.
C40_UnknownStopEndsAsListedOrByHook ==
  /\ UnknownStopGoesOn
  /\ UnknownStopUsesIteration
  /\ []((HadUnknownStop /\ RunCap = 0 /\ pc = "done") =>
          \/ EndedAsListed
          \/ orchReq.TransformContext /\ err = "transform_error"
          \/ orchReq.ConvertToLlm /\ err = "convert_error")

\* An unbounded run with a steering fetcher whose first response had stop
\* reason stop_sequence and no tool_use block: no poll after it, a second
\* iteration, and an end_turn response that ended the run.
C40_Witness ==
  /\ RunCap = 0
  /\ orchReq.GetSteeringMessages
  /\ stops = <<"stop_sequence", "end_turn">>
  /\ HadUnknownStop
  /\ messages[Len(messages) - 1].role = "assistant"
  /\ UseIdsOfBlocks(messages[Len(messages) - 1].content) = <<>>
  /\ inputsUsed = 0
  /\ iterations = 2
  /\ pc = "done"
  /\ err = ""

\* A run capped at 2 that got two such responses and ended by the
\* iteration-limit error.
C40_WitnessCapped ==
  /\ RunCap = 2
  /\ stops = <<"stop_sequence", "stop_sequence">>
  /\ dispatchLog = <<>>
  /\ err = "iteration_limit"

====
